---- MODULE Spec2Model ----
(***************************************************************************)
(* Model of the request-dispatch core of astad:                            *)
(*   - support/compose.ts   composeAsync, the onion pipeline composer      *)
(*   - http/router/route.ts HttpRoute, pattern compilation and matching    *)
(*   - http/router/router.ts HttpRouter, registration, merging and find    *)
(***************************************************************************)
EXTENDS Integers, Sequences, FiniteSets, TLC

(***************************************************************************)
(* Bounds.                                                                 *)
(***************************************************************************)
MaxStages == 2

\* the number of HttpRoute objects created in a run (registered or cloned)
MaxRoutes == 3

Dispatches == {1, 2}

(***************************************************************************)
(* Pipeline composer: support/compose.ts                                   *)
(*                                                                         *)
(* A stage is user code.  Its behaviour is a short program of operations   *)
(* on its continuation:                                                    *)
(*   "await"  await next()        (a rejection is rethrown by the stage)   *)
(*   "tail"   return next()                                                *)
(*   "call"   next() without awaiting it                                   *)
(*   "catch"  try { await next() } catch {}                                *)
(*   "throw"  throw an error of its own                                    *)
(***************************************************************************)
StageKinds == {"once", "tail", "skip", "throw", "reject", "twice", "twiceCatch", "forget"}

TerminalKinds == {"none", "hOk", "hThrow"}

Program(kind) ==
  CASE kind = "once"       -> <<"await">>
    [] kind = "tail"       -> <<"tail">>
    [] kind = "skip"       -> <<>>
    [] kind = "throw"      -> <<"throw">>
    [] kind = "reject"     -> <<"throw">>
    [] kind = "twice"      -> <<"await", "await">>
    [] kind = "twiceCatch" -> <<"await", "catch">>
    [] kind = "forget"     -> <<"call">>
    [] kind = "hOk"        -> <<>>
    [] kind = "hThrow"     -> <<"throw">>

\* "throw" and "hThrow" are plain functions that throw inside the call;
\* every other kind is an async function, whose failure is a rejected promise.
ThrowsInCall(kind) == kind \in {"throw", "hThrow"}

IsTerminalKind(kind) == kind \in {"hOk", "hThrow"}

Undefined == <<"undefined", 0>>
MultiError == <<"next() called multiple times", 0>>

Resolved(v) == [st |-> "resolved", val |-> v]
Rejected(e) == [st |-> "rejected", val |-> e]
Pending == [st |-> "pending", val |-> Undefined]
Idle == [st |-> "idle", val |-> Undefined]

VARIABLES
  middleware,  \* the stage list given to composeAsync (stage kinds)
  next,        \* the terminal given to each dispatch (a terminal kind)
  index,       \* cursor cells: cell -> last called middleware #
  frames,      \* dispatch -> sequence of stage activations
  outcome,     \* dispatch -> result of the composed function
  trace,       \* dispatch -> recorded entry/exit order
  calls,       \* dispatch -> stage # -> number of times the function was called
  repeat,      \* dispatch -> continuation calls made by a stage that had already made one
  multi        \* dispatch -> continuation calls rejected with MultiError

composeVars == <<middleware, next, index, frames, outcome, trace, calls, repeat, multi>>

VARIABLES
  heap,        \* the HttpRoute objects created so far: id -> fields
  routers,     \* router -> [routes, staticRoutes, middlewares]
  found,       \* the last call of find: its arguments, its result and its params
  thrown       \* the error raised by the last registration call, "" when none

routerVars == <<heap, routers, found, thrown>>

VARIABLES
  revision,    \* which revision of the Session class is in use
  files,       \* session id -> content of the session file, as written by the driver
  data,        \* Session.data
  flashData,   \* Session.flashData
  opened,      \* Session.opened
  returned     \* what the last call of Session.get returned

sessionVars == <<revision, files, data, flashData, opened, returned>>

VARIABLES
  lockFile,    \* the lock file of one session id: <<>> when absent, else <<content>>
  driver       \* SessionFileDriver instance -> its position in open/close and its fields

lockVars == <<lockFile, driver>>

VARIABLES
  registry,          \* Container.registry: id -> registration
  resolvedRegistry,  \* Container.resolvedRegistry: id -> cached entry
  invoked,           \* id -> number of times the value function or factory ran
  resolved           \* what the last call of Container.resolve returned

containerVars == <<registry, resolvedRegistry, invoked, resolved>>

serviceVars == <<sessionVars, lockVars, containerVars>>

vars == <<composeVars, routerVars, serviceVars>>

\* no session is in use
SessionIdle ==
  /\ revision = "none"
  /\ files = <<>>
  /\ data = <<>>
  /\ flashData = <<>>
  /\ opened = FALSE
  /\ returned = <<>>

\* no file driver is in use
LockIdle ==
  /\ lockFile = <<>>
  /\ driver = <<>>

\* no container is in use
ContainerIdle ==
  /\ registry = <<>>
  /\ resolvedRegistry = <<>>
  /\ invoked = <<>>
  /\ resolved = <<>>

\* the router services are exercised apart from the session and the container
ServiceIdle == SessionIdle /\ LockIdle /\ ContainerIdle

StageIds == 0 .. (MaxStages + 1)

\* compose.ts:10-12: the cursor is a local of each invocation of the composed function
CursorOfShared(d) == 1
CursorOf(d) == d

\* compose.ts:10: the context handed to the composed function by its caller
Context(d) == d

\* compose.ts:13
StartIndexMut == 1
StartIndex == 0

\* compose.ts:15
AlreadyCalledMut(i, idx) == i < idx
AlreadyCalled(i, idx) == i <= idx

\* compose.ts:17-18; "none" stands for a falsy fn
StageFnMut(i) ==
  IF i = Len(middleware) + 1 THEN next
  ELSE IF i < Len(middleware) THEN middleware[i + 1]
  ELSE "none"
StageFn(i) ==
  IF i = Len(middleware) THEN next
  ELSE IF i < Len(middleware) THEN middleware[i + 1]
  ELSE "none"

\* compose.ts:21 dispatch.bind(null, i + 1)
NextIndexMut(i) == i + 2
NextIndex(i) == i + 1

\* compose.ts:21 Promise.resolve(fn(...)): a promise is adopted, a value resolved
WrapReturn(r) == r

\* compose.ts:22-24
WrapThrowMut(err) == Resolved(Undefined)
WrapThrow(err) == Rejected(err)

\* compose.ts:14-25: what dispatch(i) does, given the cursor
dispatchMut(d, i) ==
  IF AlreadyCalled(i, index[CursorOf(d)]) \/ StageFn(i) = "none"
  THEN [do |-> "reject", fn |-> "none"]
  ELSE [do |-> "invoke", fn |-> StageFn(i)]
dispatch(d, i) ==
  IF AlreadyCalled(i, index[CursorOf(d)]) THEN [do |-> "reject", fn |-> "none"]
  ELSE IF StageFn(i) = "none" THEN [do |-> "resolve", fn |-> "none"]
  ELSE [do |-> "invoke", fn |-> StageFn(i)]

\* compose.ts:16
IndexAfter(d, i) ==
  IF AlreadyCalled(i, index[CursorOf(d)]) THEN index
  ELSE [index EXCEPT ![CursorOf(d)] = i]

NewFrame(d, i, fn) ==
  [stage |-> i, kind |-> fn, ctx |-> Context(d), pc |-> 1, st |-> "run",
   wait |-> 0, nexts |-> 0, res |-> Pending]

EnterEvent(i, fn) == IF IsTerminalKind(fn) THEN <<"H", i>> ELSE <<"enter", i>>

\* the result of a stage function that returned normally
ReturnValue(fr) == IF fr.kind = "hOk" THEN <<"H", fr.ctx>> ELSE Undefined

\* the error a stage function raises itself
OwnError(fr) == IF IsTerminalKind(fr.kind) THEN <<"EH", fr.ctx>> ELSE <<"E", fr.stage>>

\* frames of d after frame f settles with r; outcome follows frame 1
SettleFrames(d, f, r) ==
  [frames EXCEPT ![d][f] = [@ EXCEPT !.st = "done", !.res = r, !.wait = 0]]
SettleOutcome(d, f, r) ==
  IF f = 1 THEN [outcome EXCEPT ![d] = r] ELSE outcome

\* no router is in use while pipelines are dispatched
RouterIdle ==
  /\ heap = <<>>
  /\ routers = <<>>
  /\ found = [router |-> "none", method |-> "", path |-> <<>>, route |-> 0,
              params |-> <<>>, static |-> FALSE]
  /\ thrown = ""

InitCompose ==
  /\ middleware \in UNION {[1 .. n -> StageKinds] : n \in 0 .. MaxStages}
  /\ next \in TerminalKinds
  /\ index = [c \in Dispatches |-> -1]
  /\ frames = [d \in Dispatches |-> <<>>]
  /\ outcome = [d \in Dispatches |-> Idle]
  /\ trace = [d \in Dispatches |-> <<>>]
  /\ calls = [d \in Dispatches |-> [i \in StageIds |-> 0]]
  /\ repeat = [d \in Dispatches |-> 0]
  /\ multi = [d \in Dispatches |-> 0]
  /\ RouterIdle
  /\ ServiceIdle

\* compose.ts:10-13: the composed function is called with (context, next)
Begin(d) ==
  /\ outcome[d].st = "idle"
  /\ LET idx0 == [index EXCEPT ![CursorOf(d)] = -1]
         i == StartIndex
         rejected == AlreadyCalled(i, idx0[CursorOf(d)])
         fn == StageFn(i)
     IN /\ index' = IF rejected THEN idx0 ELSE [idx0 EXCEPT ![CursorOf(d)] = i]
        /\ IF rejected
           THEN /\ outcome' = [outcome EXCEPT ![d] = Rejected(MultiError)]
                /\ multi' = [multi EXCEPT ![d] = @ + 1]
                /\ UNCHANGED <<frames, trace, calls>>
           ELSE IF fn = "none"
           THEN /\ outcome' = [outcome EXCEPT ![d] = Resolved(Undefined)]
                /\ UNCHANGED <<frames, trace, calls, multi>>
           ELSE /\ outcome' = [outcome EXCEPT ![d] = Pending]
                /\ frames' = [frames EXCEPT ![d] = <<NewFrame(d, i, fn)>>]
                /\ trace' = [trace EXCEPT ![d] = Append(@, EnterEvent(i, fn))]
                /\ calls' = [calls EXCEPT ![d][i] = @ + 1]
                /\ UNCHANGED multi
  /\ UNCHANGED <<middleware, next, repeat>>
  /\ UNCHANGED <<routerVars, serviceVars>>

Runnable(d, f) ==
  /\ f \in DOMAIN frames[d]
  /\ frames[d][f].st = "run"

OpOf(fr) == Program(fr.kind)[fr.pc]

\* a stage calls its continuation: next() is dispatch(i + 1) (compose.ts:21)
CallNext(d, f) ==
  /\ Runnable(d, f)
  /\ frames[d][f].pc <= Len(Program(frames[d][f].kind))
  /\ OpOf(frames[d][f]) \in {"await", "tail", "call", "catch"}
  /\ LET fr == frames[d][f]
         op == OpOf(fr)
         i == NextIndex(fr.stage)
         r == dispatch(d, i)
         fr1 == [fr EXCEPT !.nexts = @ + 1]
         child == Len(frames[d]) + 1
     IN /\ index' = IndexAfter(d, i)
        /\ repeat' = [repeat EXCEPT ![d] = IF fr.nexts >= 1 THEN @ + 1 ELSE @]
        /\ multi' = [multi EXCEPT ![d] = IF r.do = "reject" THEN @ + 1 ELSE @]
        /\ IF r.do = "invoke"
           THEN /\ frames' = [frames EXCEPT ![d] =
                     Append([@ EXCEPT ![f] =
                               IF op = "call" THEN [fr1 EXCEPT !.pc = @ + 1]
                               ELSE [fr1 EXCEPT !.st = "wait", !.wait = child]],
                            NewFrame(d, i, r.fn))]
                /\ trace' = [trace EXCEPT ![d] = Append(@, EnterEvent(i, r.fn))]
                /\ calls' = [calls EXCEPT ![d][i] = @ + 1]
                /\ UNCHANGED outcome
           ELSE LET got == IF r.do = "reject" THEN Rejected(MultiError)
                           ELSE Resolved(Undefined)
                IN /\ UNCHANGED <<trace, calls>>
                   /\ IF op = "tail" \/ (op = "await" /\ got.st = "rejected")
                      THEN /\ frames' = SettleFrames(d, f, got)
                           /\ outcome' = SettleOutcome(d, f, got)
                      ELSE /\ frames' = [frames EXCEPT ![d][f] = [fr1 EXCEPT !.pc = @ + 1]]
                           /\ UNCHANGED outcome
  /\ UNCHANGED <<middleware, next>>
  /\ UNCHANGED <<routerVars, serviceVars>>

\* the promise a stage waits on has settled: the stage resumes
Resume(d, f) ==
  /\ f \in DOMAIN frames[d]
  /\ frames[d][f].st = "wait"
  /\ frames[d][frames[d][f].wait].st = "done"
  /\ LET fr == frames[d][f]
         op == OpOf(fr)
         got == frames[d][fr.wait].res
     IN IF op = "tail" \/ (op = "await" /\ got.st = "rejected")
        THEN /\ frames' = SettleFrames(d, f, got)
             /\ outcome' = SettleOutcome(d, f, got)
        ELSE /\ frames' = [frames EXCEPT ![d][f] =
                              [fr EXCEPT !.st = "run", !.wait = 0, !.pc = @ + 1]]
             /\ UNCHANGED outcome
  /\ UNCHANGED <<middleware, next, index, trace, calls, repeat, multi>>
  /\ UNCHANGED <<routerVars, serviceVars>>

\* a stage throws an error of its own (compose.ts:20-24)
Throw(d, f) ==
  /\ Runnable(d, f)
  /\ frames[d][f].pc <= Len(Program(frames[d][f].kind))
  /\ OpOf(frames[d][f]) = "throw"
  /\ LET fr == frames[d][f]
         r == IF ThrowsInCall(fr.kind) THEN WrapThrow(OwnError(fr))
              ELSE WrapReturn(Rejected(OwnError(fr)))
     IN /\ frames' = SettleFrames(d, f, r)
        /\ outcome' = SettleOutcome(d, f, r)
  /\ UNCHANGED <<middleware, next, index, trace, calls, repeat, multi>>
  /\ UNCHANGED <<routerVars, serviceVars>>

\* a stage runs to its end and returns (compose.ts:21)
Return(d, f) ==
  /\ Runnable(d, f)
  /\ frames[d][f].pc > Len(Program(frames[d][f].kind))
  /\ LET fr == frames[d][f]
         r == WrapReturn(Resolved(ReturnValue(fr)))
     IN /\ frames' = SettleFrames(d, f, r)
        /\ outcome' = SettleOutcome(d, f, r)
        /\ trace' = [trace EXCEPT ![d] =
                        IF IsTerminalKind(fr.kind) THEN @ ELSE Append(@, <<"exit", fr.stage>>)]
  /\ UNCHANGED <<middleware, next, index, calls, repeat, multi>>
  /\ UNCHANGED <<routerVars, serviceVars>>

FrameIds == 1 .. (2 * (MaxStages + 2))

NextCompose ==
  \/ \E d \in Dispatches : Begin(d)
  \/ \E d \in Dispatches, f \in FrameIds : CallNext(d, f)
  \/ \E d \in Dispatches, f \in FrameIds : Resume(d, f)
  \/ \E d \in Dispatches, f \in FrameIds : Throw(d, f)
  \/ \E d \in Dispatches, f \in FrameIds : Return(d, f)

SpecCompose == InitCompose /\ [][NextCompose]_vars

(***************************************************************************)
(* Properties of the pipeline composer.                                    *)
(***************************************************************************)
Settled(d) == outcome[d].st \in {"resolved", "rejected"}

StageCount == Len(middleware)

RECURSIVE Enters(_, _)
Enters(i, n) == IF i >= n THEN <<>> ELSE <<<<"enter", i>>>> \o Enters(i + 1, n)

RECURSIVE Exits(_)
Exits(n) == IF n = 0 THEN <<>> ELSE <<<<"exit", n - 1>>>> \o Exits(n - 1)

\* [s0-enter .. s(n-1)-enter, H, s(n-1)-exit .. s0-exit]
OnionOrder(n) == Enters(0, n) \o <<<<"H", n>>>> \o Exits(n)

IsPrefix(s, t) == Len(s) <= Len(t) /\ SubSeq(t, 1, Len(s)) = s

EveryStageIs(kinds) == \A k \in 1 .. StageCount : middleware[k] \in kinds

\* stage k (0-based) is the first stage that does not simply pass control on
FirstOddStage(k, kinds) ==
  /\ k < StageCount
  /\ middleware[k + 1] \in kinds
  /\ \A j \in 1 .. k : middleware[j] \in {"once", "tail"}

\* C1: when every stage awaits its continuation exactly once and a terminal H
\* is given, the recorded order is always a prefix of s0-enter .. s(n-1)-enter,
\* H, s(n-1)-exit .. s0-exit, and it is exactly that order when the dispatch
\* has settled: a stage's post-continuation code runs only after everything
\* below it has completed.
C1_OnionOrder ==
  (EveryStageIs({"once"}) /\ next = "hOk") =>
    \A d \in Dispatches :
      /\ IsPrefix(trace[d], OnionOrder(StageCount))
      /\ Settled(d) => (trace[d] = OnionOrder(StageCount) /\ outcome[d].st = "resolved")

C1_Witness ==
  /\ EveryStageIs({"once"}) /\ next = "hOk" /\ StageCount = 2
  /\ Settled(1)
  /\ trace[1] = <<<<"enter", 0>>, <<"enter", 1>>, <<"H", 2>>, <<"exit", 1>>, <<"exit", 0>>>>

\* C2: a continuation invoked a second time by its stage is rejected with
\* 'next() called multiple times' (as many rejections as repeated invocations),
\* and no stage function nor the terminal is ever executed twice in a dispatch.
C2_CalledMultipleTimes ==
  \A d \in Dispatches :
    /\ multi[d] = repeat[d]
    /\ \A i \in StageIds : calls[d][i] <= 1

C2_Witness ==
  /\ repeat[1] >= 1
  /\ multi[1] >= 1
  /\ Settled(1)
  /\ calls[1][1] = 1

\* C3: when every stage calls its continuation exactly once, dispatches of the
\* same pipeline interleaved at their suspension points never observe the
\* 'next() called multiple times' error, and each settled dispatch has run
\* every stage and the terminal exactly once.
C3_NoCrossTalk ==
  (EveryStageIs({"once", "tail"}) /\ next # "none") =>
    \A d \in Dispatches :
      /\ multi[d] = 0
      /\ outcome[d] # Rejected(MultiError)
      /\ \A i \in StageIds : calls[d][i] <= 1
      /\ Settled(d) => \A i \in 0 .. StageCount : calls[d][i] = 1

C3_Witness ==
  /\ EveryStageIs({"once", "tail"}) /\ next # "none" /\ StageCount = 2
  /\ outcome[1].st = "pending" /\ outcome[2].st = "pending"
  /\ index[CursorOf(1)] = 2 /\ index[CursorOf(2)] = 0
  /\ calls[1][2] = 1 /\ calls[2][1] = 0

\* C4: when stage k throws in the call or returns a rejected promise, and every
\* stage before it awaits or returns its continuation, no stage after k nor the
\* terminal is executed and the dispatch is rejected with the error of stage k.
C4_ErrorPropagates ==
  \A k \in 0 .. MaxStages :
    FirstOddStage(k, {"throw", "reject"}) =>
      \A d \in Dispatches :
        /\ \A j \in StageIds : j > k => calls[d][j] = 0
        /\ Settled(d) => outcome[d] = Rejected(<<"E", k>>)

C4_Witness ==
  /\ FirstOddStage(1, {"throw", "reject"})
  /\ next = "hOk"
  /\ outcome[1] = Rejected(<<"E", 1>>)
  /\ calls[1][1] = 1

\* C5: when stage k returns without invoking its continuation, and every stage
\* before it awaits or returns its continuation, no stage after k nor the
\* terminal is executed and the dispatch resolves.
C5_ShortCircuit ==
  \A k \in 0 .. MaxStages :
    FirstOddStage(k, {"skip"}) =>
      \A d \in Dispatches :
        /\ \A j \in StageIds : j > k => calls[d][j] = 0
        /\ Settled(d) => (outcome[d].st = "resolved" /\ calls[d][k] = 1)

C5_Witness ==
  /\ FirstOddStage(1, {"skip"})
  /\ next = "hOk"
  /\ outcome[1].st = "resolved"
  /\ calls[1][1] = 1 /\ calls[1][2] = 0

\* the terminal called directly with a context
TerminalDirect(kind, ctx) ==
  IF kind = "hOk" THEN Resolved(<<"H", ctx>>) ELSE Rejected(<<"EH", ctx>>)

\* C6: an empty pipeline dispatched with a terminal calls the terminal exactly
\* once, with the dispatch's context, and settles with the terminal's own
\* result or failure.
C6_EmptyPipeline ==
  (StageCount = 0 /\ next # "none") =>
    \A d \in Dispatches :
      /\ calls[d][0] <= 1
      /\ \A i \in StageIds : i > 0 => calls[d][i] = 0
      /\ outcome[d].st # "idle" =>
           /\ calls[d][0] = 1
           /\ frames[d][1].ctx = Context(d)
      /\ Settled(d) => outcome[d] = TerminalDirect(next, Context(d))

C6_Witness ==
  /\ StageCount = 0
  /\ outcome[1] = Resolved(<<"H", Context(1)>>)
  /\ outcome[2].st = "pending"

\* the last stage of the list makes its first continuation call
LastStageCalls(d, f) ==
  /\ CallNext(d, f)
  /\ frames[d][f].stage = StageCount - 1
  /\ frames[d][f].nexts = 0

\* C29: without a terminal, an empty pipeline resolves at once with undefined,
\* and the first continuation call of the last stage resolves at once: it
\* enters nothing, records nothing, counts as no repeated call and rejects
\* neither the stage that made it nor the dispatch.
C29_NoTerminalResolves ==
  [][next = "none" =>
       \A d \in Dispatches :
         /\ (Begin(d) /\ StageCount = 0) =>
              (outcome'[d] = Resolved(Undefined) /\ frames'[d] = <<>> /\ trace' = trace)
         /\ \A f \in FrameIds :
              LastStageCalls(d, f) =>
                (/\ Len(frames'[d]) = Len(frames[d])
                 /\ trace' = trace
                 /\ calls' = calls
                 /\ multi' = multi
                 /\ frames'[d][f].res.st # "rejected"
                 /\ (outcome'[d].st = "rejected" => outcome[d].st = "rejected"))]_vars

C29_Witness ==
  /\ next = "none"
  /\ middleware = <<"once", "tail">>
  /\ outcome[1] = Resolved(Undefined)
  /\ trace[1] = <<<<"enter", 0>>, <<"enter", 1>>, <<"exit", 0>>>>
  /\ multi[1] = 0

(***************************************************************************)
(* Strings are sequences of one-character strings.                         *)
(***************************************************************************)
EndsWith(s, c) == Len(s) > 0 /\ s[Len(s)] = c

DropLast(s) == SubSeq(s, 1, Len(s) - 1)

From(s, k) == SubSeq(s, k, Len(s))

\* s contains w as a substring
Contains(s, w) ==
  \E k \in 1 .. (Len(s) - Len(w) + 1) : SubSeq(s, k, k + Len(w) - 1) = w

\* the characters used in paths, by regular-expression class:
\* \w is [A-Za-z0-9_], the parameter class is [A-Za-z0-9._-]
WordChars == {"a", "b", "i", "j", "n", "u", "l", "p", "q", "1", "2", "_"}
ParamChars == WordChars \cup {".", "-"}

(***************************************************************************)
(* HttpRoute: http/router/route.ts                                         *)
(***************************************************************************)
RECURSIVE WordRun(_, _)
\* the length of the longest run of \w characters of s that starts at k
WordRun(s, k) ==
  IF k <= Len(s) /\ s[k] \in WordChars THEN 1 + WordRun(s, k + 1) ELSE 0

RECURSIVE PathParamKeys(_, _)
\* route.ts:60,65: path.match(/:\w+/g) with the colon removed
PathParamKeys(s, k) ==
  IF k > Len(s) THEN <<>>
  ELSE IF s[k] = ":" /\ WordRun(s, k + 1) > 0
       THEN <<SubSeq(s, k + 1, k + WordRun(s, k + 1))>>
              \o PathParamKeys(s, k + 1 + WordRun(s, k + 1))
       ELSE PathParamKeys(s, k + 1)

\* route.ts:61
HasAny(s) == \E k \in 1 .. Len(s) : s[k] = "*"

RECURSIVE Expr(_, _)
\* route.ts:77: the expression as a token list; "param" is ([A-Za-z0-9._-]+),
\* "star" is (.*), any other character stands for itself ("." for any character)
Expr(s, k) ==
  IF k > Len(s) THEN <<>>
  ELSE IF s[k] = ":" /\ WordRun(s, k + 1) > 0
       THEN <<[t |-> "param", c |-> ""]>> \o Expr(s, k + 1 + WordRun(s, k + 1))
       ELSE IF s[k] = "*"
            THEN <<[t |-> "star", c |-> ""]>> \o Expr(s, k + 1)
            ELSE <<[t |-> "lit", c |-> s[k]]>> \o Expr(s, k + 1)

NullRegex == [isNull |-> TRUE, toks |-> <<>>]

NoMatch == [ok |-> FALSE, caps |-> <<>>]

RECURSIVE ParamRun(_, _)
\* the length of the longest run of parameter-class characters at the head of s
ParamRun(s, k) ==
  IF k <= Len(s) /\ s[k] \in ParamChars THEN 1 + ParamRun(s, k + 1) ELSE 0

RECURSIVE Exec(_, _)
RECURSIVE TryGroup(_, _, _, _)
\* a backtracking match of the token list against the whole of s; groups are
\* greedy, so the first success is the one a regular-expression engine reports.
\* caps are the texts of the groups after the outer one, in order.
Exec(toks, s) ==
  IF toks = <<>> THEN (IF s = <<>> THEN [ok |-> TRUE, caps |-> <<>>] ELSE NoMatch)
  ELSE LET t == Head(toks)
       IN IF t.t = "lit"
          THEN IF s # <<>> /\ (t.c = "." \/ Head(s) = t.c)
               THEN Exec(Tail(toks), Tail(s))
               ELSE NoMatch
          ELSE IF t.t = "param"
               THEN TryGroup(toks, s, ParamRun(s, 1), 1)
               ELSE TryGroup(toks, s, Len(s), 0)
TryGroup(toks, s, k, min) ==
  IF k < min THEN NoMatch
  ELSE LET r == Exec(Tail(toks), From(s, k + 1))
       IN IF r.ok THEN [ok |-> TRUE, caps |-> <<SubSeq(s, 1, k)>> \o r.caps]
          ELSE TryGroup(toks, s, k - 1, min)

\* route.ts:113: path.match(this.regex).  A null regex is converted to the
\* pattern /null/, which is not anchored and has no groups.
RegexMatch(regex, path) ==
  IF regex.isNull
  THEN [ok |-> Contains(path, <<"n", "u", "l", "l">>), caps |-> <<>>]
  ELSE Exec(regex.toks, path)

\* route.ts:26-37 with setPathParamKeys (59-72) and setRegex (74-80)
setPath(route, path) ==
  LET p == IF path # <<"/">> /\ EndsWith(path, "/") THEN DropLast(path) ELSE path
      keys == PathParamKeys(p, 1)
      static == route.static /\ keys = <<>> /\ ~HasAny(p)
  IN [route EXCEPT
        !.path = p,
        !.name = p,
        !.paramKeys = keys,
        !.static = static,
        !.regex = IF static THEN route.regex
                  ELSE [isNull |-> FALSE, toks |-> Expr(p, 1)]]

\* route.ts:5-20: field initialisers and constructor
NewRoute(methods, path, handler) ==
  setPath([methods |-> methods, path |-> <<>>, handler |-> handler,
           static |-> TRUE, regex |-> NullRegex, paramKeys |-> <<>>,
           name |-> <<>>, middlewares |-> <<>>, composedHandler |-> <<>>],
          path)

\* route.ts:89: (this.methods as any) == '*' compares the joined array with '*'
IsWildcard(methods) == methods = <<"*">>

matchMethodMut(route, method) ==
  \/ IsWildcard(route.methods)
  \/ \E k \in 1 .. Len(route.methods) :
       route.methods[k] = method \/ (route.methods[k] = "HEAD" /\ method = "GET")

\* route.ts:87-98
matchMethod(route, method) ==
  \/ IsWildcard(route.methods)
  \/ \E k \in 1 .. Len(route.methods) :
       route.methods[k] = method \/ (route.methods[k] = "GET" /\ method = "HEAD")

\* the key of params[this.paramKeys[i - 2]] when the list has no such entry
UndefinedKey == <<"undefined">>

RECURSIVE WriteParams(_, _, _, _)
\* route.ts:119-121
WriteParams(params, keys, caps, k) ==
  IF k > Len(caps) THEN params
  ELSE WriteParams(((IF k <= Len(keys) THEN keys[k] ELSE UndefinedKey) :> caps[k]) @@ params,
                   keys, caps, k + 1)

\* route.ts:106-124: the result and the params object after the call
match(route, path, params) ==
  IF route.path = path THEN [ok |-> TRUE, params |-> params]
  ELSE LET m == RegexMatch(route.regex, path)
       IN IF ~m.ok THEN [ok |-> FALSE, params |-> params]
          ELSE [ok |-> TRUE, params |-> WriteParams(params, route.paramKeys, m.caps, 1)]

middlewareAppendMut(route, mws) == [route EXCEPT !.middlewares = mws \o @]

\* route.ts:159-166
middlewareAppend(route, mws) == [route EXCEPT !.middlewares = @ \o mws]

\* route.ts:55-57
as(route, name) == [route EXCEPT !.name = name]

\* handlers are references to functions; handler 7 is the array [8, 9]
HandlerArrays == (7 :> <<8, 9>>)

\* route.ts:174: Array.isArray(this.handler) ? this.handler : [this.handler]
HandlerChain(handler) ==
  IF handler \in DOMAIN HandlerArrays THEN HandlerArrays[handler] ELSE <<handler>>

\* route.ts:172-175: the stage list handed to composeAsync
ComposedStages(route) == route.middlewares \o HandlerChain(route.handler)

getComposedHandlerMut(route) == [route EXCEPT !.composedHandler = <<ComposedStages(route)>>]

\* route.ts:168-177: the route after the call; composedHandler is <<>> for
\* null and <<stages>> for a dispatcher over a copy of the stage list
getComposedHandler(route) ==
  IF route.composedHandler # <<>> THEN route
  ELSE [route EXCEPT !.composedHandler = <<ComposedStages(route)>>]

\* route.ts:47-49
setHandler(route, handler) == [route EXCEPT !.handler = handler]

cloneMut(route) == NewRoute(route.methods, route.path, route.handler)

\* route.ts:126-136
clone(route) ==
  as(middlewareAppend(NewRoute(route.methods, route.path, route.handler),
                      route.middlewares),
     route.name)

(***************************************************************************)
(* HttpRouter: http/router/router.ts                                       *)
(***************************************************************************)
RouterIds == {"root", "api"}

\* the prefix option each router is constructed with (router.ts:343: '/' by
\* default): root and site have none, api has '/p', auth has '/q'
PrefixOption(r) ==
  IF r \in {"root", "site"} THEN <<"/">>
  ELSE IF r = "auth" THEN <<"/", "q">> ELSE <<"/", "p">>

\* router.ts:14-17: this._prefix
RouterPrefix(r) == IF PrefixOption(r) = <<"/">> THEN <<>> ELSE PrefixOption(r)

\* router.ts:5-10: a router without routes
EmptyRouter == [routes |-> <<>>, staticRoutes |-> <<>>, middlewares |-> <<>>]

\* router.ts:111-121
makePath(r, path) ==
  IF RouterPrefix(r) = <<>> THEN path
  ELSE IF RouterPrefix(r) = <<"/">> /\ path[1] = "/" THEN path
  ELSE RouterPrefix(r) \o path

\* router.ts:94: `${method}${route.getPath()}`
StaticKey(method, path) == <<method>> \o path

RECURSIVE staticPut(_, _, _, _)
\* router.ts:93-95
staticPut(sr, route, id, k) ==
  IF k > Len(route.methods) THEN sr
  ELSE staticPut((StaticKey(route.methods[k], route.path) :> id) @@ sr, route, id, k + 1)

\* router.ts:91-97
static(R, route, id) ==
  IF route.static THEN [R EXCEPT !.staticRoutes = staticPut(@, route, id, 1)] ELSE R

addRouteMut(R, route, id) == [R EXCEPT !.routes = Append(@, id)]

\* router.ts:85-89
addRoute(R, route, id) == static([R EXCEPT !.routes = Append(@, id)], route, id)

AddErrorMut(path) ==
  IF path = <<>> THEN "Path  must start with slash(/)"
  ELSE IF path[1] # "/" THEN "must start with slash(/)"
  ELSE ""

\* router.ts:62-67: the error add raises for a path, "" when it accepts it;
\* the message names the path, which tells the empty path from the others
AddError(path) ==
  IF path = <<>> THEN "Path  must start with slash(/)"
  ELSE IF path[1] # "/" THEN "must start with slash(/)"
  ELSE IF Len(path) > 1 /\ EndsWith(path, "/") THEN "must not end with slash(/)"
  ELSE ""

\* router.ts:68-71: the route add constructs
AddedRoute(r, method, path, handler) ==
  middlewareAppend(NewRoute(<<method>>, makePath(r, path), handler),
                   routers[r].middlewares)

RECURSIVE RoutesOf(_, _)
\* router.ts:124-125: the routes the two loops visit, in order
RoutesOf(rs, k) ==
  IF k > Len(rs) THEN <<>> ELSE routers[rs[k]].routes \o RoutesOf(rs, k + 1)

\* router.ts:136-140
MergePrefix(r, optPrefix) ==
  LET prefix == IF optPrefix # <<>> THEN optPrefix \o RouterPrefix(r) ELSE RouterPrefix(r)
  IN IF prefix = <<>> \/ prefix = <<"/">> THEN <<>> ELSE prefix

MergedRouteMut(r, route, optPrefix) ==
  LET routePath == MergePrefix(r, optPrefix) \o route.path
  IN middlewareAppend(
       NewRoute(route.methods,
                IF EndsWith(routePath, "/") THEN DropLast(routePath) ELSE routePath,
                route.handler),
       routers[r].middlewares)

\* router.ts:132-149: the clone of a route under the prefix
MergedRoute(r, route, optPrefix) ==
  LET nroute == clone(route)
      routePath == MergePrefix(r, optPrefix) \o nroute.path
  IN setPath(nroute, IF EndsWith(routePath, "/") THEN DropLast(routePath) ELSE routePath)

RECURSIVE MergeLoopMut(_, _, _, _, _, _)
MergeLoopMut(H, R, r, ids, k, optPrefix) ==
  IF k > Len(ids) THEN [heap |-> H, router |-> R]
  ELSE MergeLoopMut(H, addRoute(R, H[ids[k]], ids[k]), r, ids, k + 1, optPrefix)

RECURSIVE MergeLoop(_, _, _, _, _, _)
\* router.ts:125-153 without the merge option
MergeLoop(H, R, r, ids, k, optPrefix) ==
  IF k > Len(ids) THEN [heap |-> H, router |-> R]
  ELSE LET nroute == MergedRoute(r, H[ids[k]], optPrefix)
       IN MergeLoop(Append(H, nroute), addRoute(R, nroute, Len(H) + 1),
                    r, ids, k + 1, optPrefix)

\* router.ts:123-154: heap and this router after mergeRouters(rs, {prefix, merge})
mergeRouters(r, rs, optPrefix, merge) ==
  LET ids == RoutesOf(rs, 1)
  IN IF merge
     THEN [heap |-> heap,
           router |-> IF ids = <<>> THEN routers[r]
                      ELSE addRoute(routers[r], heap[ids[1]], ids[1])]
     ELSE MergeLoop(heap, routers[r], r, ids, 1, optPrefix)

\* router.ts:213-221: the router list handed to mergeRouters; flag is the
\* second argument when it is a boolean, "none" when it is the first router
UseRouters(flag, rs) == IF flag = "none" THEN Tail(rs) \o <<Head(rs)>> ELSE rs

\* router.ts:218
UseMerge(flag) == flag \in {"true", "false"}

\* router.ts:234-237
Normalize(path) == IF EndsWith(path, "/") THEN DropLast(path) ELSE path

RECURSIVE ScanMut(_, _, _, _, _)
ScanMut(r, method, path, params, i) ==
  IF i < 1 THEN [route |-> 0, params |-> params, static |-> FALSE]
  ELSE LET m == match(heap[routers[r].routes[i]], path, params)
       IN IF m.ok /\ matchMethod(heap[routers[r].routes[i]], method)
          THEN [route |-> routers[r].routes[i], params |-> m.params, static |-> FALSE]
          ELSE ScanMut(r, method, path, m.params, i - 1)

RECURSIVE Scan(_, _, _, _, _)
\* router.ts:245-255
Scan(r, method, path, params, i) ==
  IF i > Len(routers[r].routes) THEN [route |-> 0, params |-> params, static |-> FALSE]
  ELSE LET m == match(heap[routers[r].routes[i]], path, params)
       IN IF m.ok /\ matchMethod(heap[routers[r].routes[i]], method)
          THEN [route |-> routers[r].routes[i], params |-> m.params, static |-> FALSE]
          ELSE Scan(r, method, path, m.params, i + 1)

\* router.ts:245-255 entered at the first route
LinearScanMut(r, method, path, params) ==
  ScanMut(r, method, path, params, Len(routers[r].routes))
LinearScan(r, method, path, params) == Scan(r, method, path, params, 1)

\* router.ts:233-256; route 0 stands for false
find(r, method, path, params) ==
  LET p == Normalize(path)
      key == StaticKey(method, p)
  IN IF key \in DOMAIN routers[r].staticRoutes
     THEN [route |-> routers[r].staticRoutes[key], params |-> params, static |-> TRUE]
     ELSE LinearScan(r, method, p, params)

NoFind ==
  [router |-> "none", method |-> "", path |-> <<>>, route |-> 0,
   params |-> <<>>, static |-> FALSE]

(***************************************************************************)
(* Registration and lookup on two routers.                                 *)
(***************************************************************************)
\* the registrations made on each router: <<method, path>>
AddInputs(r) ==
  IF r = "root"
  THEN {<<"GET", <<"/">>>>, <<"GET", <<"/", "a">>>>, <<"POST", <<"/", "a">>>>,
        <<"GET", <<"/", ":", "i">>>>,
        <<"GET", <<"/", "n", "u", "l", "l">>>>, <<"GET", <<"/", "a", "/">>>>}
  ELSE {<<"GET", <<"/">>>>, <<"GET", <<"/", ":", "i">>>>}

\* root merges api: use(api), use('/q', api), use('/q', true, api), use('/q', false, api)
Parents == {"root"}

UsePrefixes == {<<"/", "q">>}

FindMethods == {"GET", "HEAD"}

FindPaths ==
  {<<"/">>, <<"/", "a">>, <<"/", "a", "/">>, <<"/", "a", "/", "/">>,
   <<"/", "n", "u", "l", "l", "/", "/">>, <<"/", "p", "/", "a">>}

\* no pipeline is dispatched while routers are built and searched
ComposeIdle ==
  /\ middleware = <<>>
  /\ next = "none"
  /\ index = [c \in Dispatches |-> -1]
  /\ frames = [d \in Dispatches |-> <<>>]
  /\ outcome = [d \in Dispatches |-> Idle]
  /\ trace = [d \in Dispatches |-> <<>>]
  /\ calls = [d \in Dispatches |-> [i \in StageIds |-> 0]]
  /\ repeat = [d \in Dispatches |-> 0]
  /\ multi = [d \in Dispatches |-> 0]

InitRouter ==
  /\ heap = <<>>
  /\ routers = [r \in RouterIds |-> EmptyRouter]
  /\ found = NoFind
  /\ thrown = ""
  /\ ComposeIdle
  /\ ServiceIdle

\* router.ts:61-75
Add(r, method, path) ==
  /\ Len(heap) < MaxRoutes
  /\ IF AddError(path) # ""
     THEN /\ thrown' = AddError(path)
          /\ UNCHANGED <<heap, routers>>
     ELSE LET id == Len(heap) + 1
              route == AddedRoute(r, method, path, id)
          IN /\ heap' = Append(heap, route)
             /\ routers' = [routers EXCEPT ![r] = addRoute(@, route, id)]
             /\ thrown' = ""
  /\ found' = NoFind
  /\ UNCHANGED <<composeVars, serviceVars>>

\* router.ts:195-204: use(what) with a router
UseRouter(r, what) ==
  /\ what # r
  /\ routers[what].routes # <<>>
  /\ Len(heap) + Len(routers[what].routes) <= MaxRoutes
  /\ LET m == mergeRouters(r, <<what>>, <<>>, FALSE)
     IN /\ heap' = m.heap
        /\ routers' = [routers EXCEPT ![r] = m.router]
  /\ thrown' = ""
  /\ found' = NoFind
  /\ UNCHANGED <<composeVars, serviceVars>>

\* router.ts:212-230: use(prefix, [merge,] router)
UsePrefix(r, prefix, flag, what) ==
  /\ what # r
  /\ routers[what].routes # <<>>
  /\ IF UseMerge(flag)
     THEN Len(routers[r].routes) < MaxRoutes
     ELSE Len(heap) + Len(routers[what].routes) <= MaxRoutes
  /\ Len(routers[r].routes) < MaxRoutes
  /\ LET m == mergeRouters(r, UseRouters(flag, <<what>>), prefix, UseMerge(flag))
     IN /\ heap' = m.heap
        /\ routers' = [routers EXCEPT ![r] = m.router]
  /\ thrown' = ""
  /\ found' = NoFind
  /\ UNCHANGED <<composeVars, serviceVars>>

\* router.ts:233-256: find(method, path) with a fresh params object
\* find changes nothing but its own result, so one call per router state is
\* modelled: a second call would see what the first one saw
Find(r, method, path) ==
  /\ found = NoFind
  /\ found' = [router |-> r, method |-> method, path |-> path]
                @@ find(r, method, path, <<>>)
  /\ thrown' = ""
  /\ UNCHANGED <<heap, routers>>
  /\ UNCHANGED <<composeVars, serviceVars>>

NextRouter ==
  \/ \E r \in RouterIds : \E in \in AddInputs(r) : Add(r, in[1], in[2])
  \/ \E r \in Parents, what \in RouterIds : UseRouter(r, what)
  \/ \E r \in Parents, what \in RouterIds, prefix \in UsePrefixes,
        flag \in {"none", "true", "false"} : UsePrefix(r, prefix, flag, what)
  \/ \E r \in Parents, method \in FindMethods, path \in FindPaths : Find(r, method, path)

SpecRouter == InitRouter /\ [][NextRouter]_vars

(***************************************************************************)
(* Properties of find.                                                     *)
(***************************************************************************)
Searched == found.router # "none"

RoutesIn(r) == routers[r].routes

\* the positions of the route list whose route matches the path and the method
Matching(r, method, path) ==
  {i \in 1 .. Len(RoutesIn(r)) :
     /\ match(heap[RoutesIn(r)[i]], path, <<>>).ok
     /\ matchMethod(heap[RoutesIn(r)[i]], method)}

\* the earliest-registered matching route, 0 when there is none
EarliestMatch(r, method, path) ==
  IF Matching(r, method, path) = {} THEN 0
  ELSE RoutesIn(r)[CHOOSE i \in Matching(r, method, path) :
                     \A j \in Matching(r, method, path) : i <= j]

HasStaticEntry(r, method, path) ==
  StaticKey(method, Normalize(path)) \in DOMAIN routers[r].staticRoutes

\* C7: a find answered from the static index returns the route that a linear
\* scan of the ordered route list (first route whose match and matchMethod
\* succeed) returns.
C7_IndexAgreesWithScan ==
  (Searched /\ found.static) =>
    found.route = EarliestMatch(found.router, found.method, Normalize(found.path))

RegisteredAt(r, method, path) ==
  \E i \in 1 .. Len(RoutesIn(r)) :
    /\ heap[RoutesIn(r)[i]].path = path
    /\ matchMethod(heap[RoutesIn(r)[i]], method)

\* C9: on a router without prefix, find(M, '/') returns a route registered at
\* the root path '/' for M.
C9_RootIsFound ==
  (/\ Searched
   /\ RouterPrefix(found.router) = <<>>
   /\ found.path = <<"/">>
   /\ RegisteredAt(found.router, found.method, <<"/">>)) =>
    /\ found.route # 0
    /\ heap[found.route].path = <<"/">>

\* C10: find normalizes exactly one trailing slash: find(M, p + '/') returns
\* what find(M, p) returns for a non-root p, and a path p + '//' does not
\* return a route registered at p.
C10_OneTrailingSlash ==
  Searched =>
    LET p1 == DropLast(found.path)
        p2 == DropLast(p1)
    IN /\ (Len(found.path) > 1 /\ EndsWith(found.path, "/") /\ ~EndsWith(p1, "/")) =>
            found.route = find(found.router, found.method, p1, <<>>).route
       /\ (Len(found.path) > 2 /\ EndsWith(found.path, "/") /\ EndsWith(p1, "/")) =>
            (found.route = 0 \/ heap[found.route].path # p2)

(***************************************************************************)
(* Nested routers: auth is used by api, api and site are used by root, and *)
(* a linked view of root registers under its own prefix.                   *)
(***************************************************************************)
NestIds == {"root", "api", "auth", "site"}

\* the registrations made on each router: <<method, path>>
NestInputs(r) ==
  IF r = "auth" THEN {<<"GET", <<"/", "a">>>>, <<"GET", <<"/", "n", "u", "l", "l">>>>}
  ELSE IF r = "root" THEN {<<"GET", <<"a">>>>, <<"GET", <<"/", "a", "/">>>>}
  ELSE {<<"GET", <<"/">>>>}

\* <<parent, child>>: api.use(auth), root.use(api), root.use(site)
NestPairs == {<<"api", "auth">>, <<"root", "api">>, <<"root", "site">>}

\* router.ts:77-83: the linked views v = root.prefix('/v') and
\* w = api.middleware(w)
Views == {"v", "w"}
ViewRouter(v) == IF v = "v" THEN "root" ELSE "api"
\* router.ts:341-350: the prefix option of the view, '/' by default
ViewPrefixOption(v) == IF v = "v" THEN <<"/", "v">> ELSE <<"/">>
\* router.ts:263-268
ViewPrefix(v) == IF ViewPrefixOption(v) = <<"/">> THEN <<>> ELSE ViewPrefixOption(v)
ViewMiddlewares(v) == IF v = "v" THEN <<>> ELSE <<"w">>

\* the middlewares option each router is constructed with (router.ts:13-14)
NestMiddlewares(r) ==
  IF r = "auth" THEN <<"f", "g">> ELSE IF r = "api" THEN <<"k">> ELSE <<>>

LinkedInputs == {<<"GET", <<"/">>>>, <<"POST", <<"/", "a">>>>}

InitNest ==
  /\ heap = <<>>
  /\ routers = [r \in NestIds |-> [EmptyRouter EXCEPT !.middlewares = NestMiddlewares(r)]]
  /\ found = NoFind
  /\ thrown = ""
  /\ ComposeIdle
  /\ ServiceIdle

\* router.ts:327-338: LinkedRouter.add
LinkedAdd(v, method, path) ==
  LET full == ViewPrefix(v) \o path
      p == IF EndsWith(full, "/") THEN DropLast(full) ELSE full
      r == ViewRouter(v)
  IN /\ Len(heap) < MaxRoutes
     /\ IF AddError(p) # ""
        THEN /\ thrown' = AddError(p)
             /\ UNCHANGED <<heap, routers>>
        ELSE LET id == Len(heap) + 1
                 route == middlewareAppend(AddedRoute(r, method, p, id), ViewMiddlewares(v))
             IN /\ heap' = Append(heap, route)
                /\ routers' = [routers EXCEPT ![r] = addRoute(@, route, id)]
                /\ thrown' = ""
     /\ found' = NoFind
     /\ UNCHANGED <<composeVars, serviceVars>>

NextNest ==
  \/ \E r \in NestIds : \E in \in NestInputs(r) : Add(r, in[1], in[2])
  \/ \E v \in Views : \E in \in LinkedInputs : LinkedAdd(v, in[1], in[2])
  \/ \E pair \in NestPairs : UseRouter(pair[1], pair[2])
  \/ \E pair \in NestPairs, prefix \in UsePrefixes :
        UsePrefix(pair[1], prefix, "none", pair[2])

SpecNest == InitNest /\ [][NextNest]_vars

(***************************************************************************)
(* Middleware on two routers: use(fn), route.middleware(fn), and root      *)
(* using api.                                                              *)
(***************************************************************************)
MaxMiddlewares == 2

\* the functions handed to use(fn) and to route.middleware(fn)
RouterFns == {"f"}
LocalFns == {"l"}

MwInputs(r) ==
  IF r = "root" THEN {<<"GET", <<"/", "b">>>>}
  ELSE {<<"GET", <<"/", "a">>>>}

\* router.ts:211
UseError == "Expects an instance of Router or a CallableFunction for middleware."

RECURSIVE AttachAll(_, _, _, _)
\* router.ts:207-209: routes.forEach(route => route.middleware(what))
AttachAll(H, ids, k, fn) ==
  IF k > Len(ids) THEN H
  ELSE AttachAll([H EXCEPT ![ids[k]] = middlewareAppend(@, <<fn>>)], ids, k + 1, fn)

\* router.ts:205-211: use(what) with a function
UseFn(r, fn) ==
  /\ Len(routers[r].middlewares) < MaxMiddlewares
  /\ \A i \in 1 .. Len(routers[r].routes) :
       Len(heap[routers[r].routes[i]].middlewares) < MaxMiddlewares
  /\ routers' = [routers EXCEPT ![r].middlewares = Append(@, fn)]
  /\ heap' = AttachAll(heap, routers[r].routes, 1, fn)
  /\ thrown' = UseError
  /\ found' = NoFind
  /\ UNCHANGED <<composeVars, serviceVars>>

\* route.ts:159-166: middleware(fn) on a route the caller holds
RouteMiddleware(id, fn) ==
  /\ id \in DOMAIN heap
  /\ Len(heap[id].middlewares) < MaxMiddlewares
  /\ heap' = [heap EXCEPT ![id] = middlewareAppend(@, <<fn>>)]
  /\ thrown' = ""
  /\ found' = NoFind
  /\ UNCHANGED <<routers, composeVars, serviceVars>>

NextMw ==
  \/ \E r \in RouterIds : \E in \in MwInputs(r) : Add(r, in[1], in[2])
  \/ \E r \in RouterIds, fn \in RouterFns : UseFn(r, fn)
  \/ \E id \in 1 .. MaxRoutes, fn \in LocalFns : RouteMiddleware(id, fn)
  \/ UseRouter("root", "api")

SpecMw == InitRouter /\ [][NextMw]_vars

(***************************************************************************)
(* Properties of merged routers.                                           *)
(***************************************************************************)
\* the parent itself holds a route registered at this path
HoldsPath(r, path) ==
  \E i \in 1 .. Len(RoutesIn(r)) : heap[RoutesIn(r)[i]].path = path

\* C11: after parent.use(child), where the parent has prefix P and the child
\* holds a route with full path q, parent.find(method, P + q) returns a route
\* with the child route's handler (so nesting in a prefixless grandparent
\* keeps the path findable), and for a non-empty P parent.find(method, q)
\* fails unless the parent registered q itself.
C11_PrefixComposes ==
  [][\A pair \in NestPairs :
       UseRouter(pair[1], pair[2]) =>
         \A k \in 1 .. Len(RoutesIn(pair[2])) :
           LET c == heap[RoutesIn(pair[2])[k]]
               P == RouterPrefix(pair[1])
               m == c.methods[1]
           IN /\ (find(pair[1], m, P \o c.path, <<>>).route # 0)'
              /\ (heap[find(pair[1], m, P \o c.path, <<>>).route].handler)' = c.handler
              /\ (P # <<>> /\ ~HoldsPath(pair[1], c.path)) =>
                   (find(pair[1], m, c.path, <<>>).route = 0)']_vars

\* the Route objects a router holds
HeldBy(r) == {RoutesIn(r)[i] : i \in 1 .. Len(RoutesIn(r))}

\* a step of the parent: use(child), use(fn), add, or middleware() on one of
\* the routes the parent holds
ParentStep(parent, child) ==
  \/ UseRouter(parent, child)
  \/ \E fn \in RouterFns : UseFn(parent, fn)
  \/ \E in \in MwInputs(parent) : Add(parent, in[1], in[2])
  \/ \E id \in HeldBy(parent) \cup (HeldBy(parent))', fn \in LocalFns : RouteMiddleware(id, fn)

\* C12: parent.use(child) leaves the child router (route list, static index,
\* middleware list) and every Route it holds (path, name, methods, middleware
\* list) unmodified, and so does every later mutation of the parent or of the
\* merged copies: use(fn) on the parent, middleware() on a merged route.
C12_ChildUntouched ==
  [][ParentStep("root", "api") =>
       /\ routers'["api"] = routers["api"]
       /\ \A id \in HeldBy("api") : heap'[id] = heap[id]]_vars

\* root holds a copy of a route of api, and the copy has since received
\* middleware from root.use(fn) that the route of api does not carry
C12_Witness ==
  /\ routers["root"].middlewares # <<>>
  /\ \E c \in HeldBy("api"), n \in HeldBy("root") :
       /\ n # c
       /\ heap[n].handler = heap[c].handler
       /\ heap[n].path = RouterPrefix("root") \o heap[c].path
       /\ Len(heap[n].middlewares) > Len(heap[c].middlewares)
       /\ \E k \in 1 .. Len(heap[n].middlewares) : heap[n].middlewares[k] \in LocalFns

\* C13: use(fn) with one middleware function completes without raising an
\* error, appends fn to the router's middleware list and attaches fn to every
\* route already registered; every route registered afterwards through add
\* carries the router's middleware, so no route is skipped.
C13_UseFnCompletes ==
  [][(\A r \in RouterIds, fn \in RouterFns :
        UseFn(r, fn) =>
          /\ thrown' = ""
          /\ routers'[r].middlewares = Append(routers[r].middlewares, fn)
          /\ \A id \in HeldBy(r) :
               heap'[id].middlewares = Append(heap[id].middlewares, fn))
     /\ (\A s \in RouterIds : \A in \in MwInputs(s) :
           Add(s, in[1], in[2]) =>
             heap'[Len(heap')].middlewares = routers[s].middlewares)]_vars

\* the route-local middleware of a route, in the order it was attached
LocalOf(route) == SelectSeq(route.middlewares, LAMBDA fn : fn \in LocalFns)

\* C14: a route registered before a use(fn) call carries the same middleware
\* sequence as a route registered after it and given the same route-local
\* middleware, which is the router's middleware followed by the route-local
\* middleware (api holds only routes registered through add).
C14_SameSequence ==
  \A id \in HeldBy("api") :
    heap[id].middlewares = routers["api"].middlewares \o LocalOf(heap[id])

\* C15: use(prefix, true, r1, ..., rn) copies every route of every supplied
\* router into this router verbatim (same path, same handler), so each is in
\* the route list and findable afterwards.
C15_VerbatimCopiesAll ==
  [][\A r \in Parents, what \in RouterIds, prefix \in UsePrefixes :
       UsePrefix(r, prefix, "true", what) =>
         \A id \in HeldBy(what) :
           /\ \E n \in (HeldBy(r))' :
                /\ heap'[n].path = heap[id].path
                /\ heap'[n].handler = heap[id].handler
           /\ (find(r, heap[id].methods[1], heap[id].path, <<>>).route # 0)']_vars

\* C16: use(prefix, mergeFlag, ...routers) copies verbatim only when mergeFlag
\* is true; with mergeFlag false it reprefixes and clones exactly as
\* use(prefix, ...routers) without a flag does.
C16_FalseFlagReprefixes ==
  [][\A r \in Parents, what \in RouterIds, prefix \in UsePrefixes :
       UsePrefix(r, prefix, "false", what) =>
         LET m == mergeRouters(r, UseRouters("none", <<what>>), prefix, UseMerge("none"))
         IN /\ heap' = m.heap
            /\ routers' = [routers EXCEPT ![r] = m.router]]_vars

\* C17: every route held by a router, after any sequence of add, linked-view
\* add and use(child) / use(prefix, child) merges, has a path that starts with
\* '/' and does not end with '/' unless it is exactly the root '/'.
C17_PathsWellFormed ==
  \A r \in DOMAIN routers : \A id \in HeldBy(r) :
    /\ heap[id].path # <<>>
    /\ heap[id].path[1] = "/"
    /\ heap[id].path = <<"/">> \/ ~EndsWith(heap[id].path, "/")

(***************************************************************************)
(* One route: new HttpRoute(methods, pattern, handler), then matchMethod   *)
(* and match on it.                                                        *)
(***************************************************************************)
RouteMethods == {<<"GET">>, <<"HEAD">>, <<"POST">>, <<"GET", "POST">>, <<"*">>}

RoutePatterns ==
  {<<"/">>, <<"/", "a">>, <<"/", "u", "/", ":", "i">>,
   <<"/", "u", "/", ":", "i", "/", "p", "/", ":", "j">>,
   <<"/", "a", "/", "*">>, <<"/", "*">>}

RequestMethods == {"GET", "HEAD", "POST"}

RequestPaths ==
  {<<"/">>, <<"/", "a">>, <<"/", "b">>, <<"/", "n", "u", "l", "l">>,
   <<"/", "u", "/", "1">>, <<"/", "u", "/", "1", ".", "2">>, <<"/", "u", "/", "~">>,
   <<"/", "u", "/">>, <<"/", "u", "/", ":", "i">>,
   <<"/", "u", "/", "1", "/", "p", "/", "2">>, <<"/", "u", "/", "1", "/", "p">>,
   <<"/", "a", "/", "b", "/", "1", ".", "2">>, <<"/", "a", "/">>, <<"/", "a", "/", "*">>,
   <<"/", "b", "/", "a">>}

InitRoute ==
  /\ heap \in {<<NewRoute(ms, pattern, 1)>> : ms \in RouteMethods, pattern \in RoutePatterns}
  /\ routers = [r \in RouterIds |-> EmptyRouter]
  /\ found = NoFind
  /\ thrown = ""
  /\ ComposeIdle
  /\ ServiceIdle

\* route.ts:87-98: matchMethod(method) on the route; route 1 stands for true
MatchMethod(method) ==
  /\ found' = [router |-> "matchMethod", method |-> method, path |-> <<>>,
               route |-> IF matchMethod(heap[1], method) THEN 1 ELSE 0,
               params |-> <<>>, static |-> FALSE]
  /\ UNCHANGED <<heap, routers, thrown, composeVars, serviceVars>>

\* route.ts:106-124: match(path, params) with a fresh params object
Match(path) ==
  /\ LET m == match(heap[1], path, <<>>)
     IN found' = [router |-> "match", method |-> "", path |-> path,
                  route |-> IF m.ok THEN 1 ELSE 0,
                  params |-> m.params, static |-> FALSE]
  /\ UNCHANGED <<heap, routers, thrown, composeVars, serviceVars>>

NextRoute ==
  \/ \E method \in RequestMethods : MatchMethod(method)
  \/ \E path \in RequestPaths : Match(path)

SpecRoute == InitRoute /\ [][NextRoute]_vars

(***************************************************************************)
(* Properties of one route.                                                *)
(***************************************************************************)
Accepts(route, method) == \E k \in 1 .. Len(route.methods) : route.methods[k] = method

\* C18: matchMethod(m) is true exactly when the route accepts the wildcard
\* method, or m is in its method set, or it accepts GET and m is HEAD; a
\* HEAD-only route does not match GET.
C18_MethodMatch ==
  found.router = "matchMethod" =>
    /\ (found.route = 1) <=>
          \/ Accepts(heap[1], "*")
          \/ Accepts(heap[1], found.method)
          \/ (Accepts(heap[1], "GET") /\ found.method = "HEAD")
    /\ (heap[1].methods = <<"HEAD">> /\ found.method = "GET") => found.route = 0

\* a GET route answered a HEAD request
C18_Witness ==
  /\ found.router = "matchMethod"
  /\ found.method = "HEAD"
  /\ heap[1].methods = <<"GET">>
  /\ found.route = 1

RECURSIVE Split(_, _, _)
\* the segments of s between slashes, from position k on, cur being the
\* segment read so far
Split(s, k, cur) ==
  IF k > Len(s) THEN <<cur>>
  ELSE IF s[k] = "/" THEN <<cur>> \o Split(s, k + 1, <<>>)
  ELSE Split(s, k + 1, Append(cur, s[k]))

Segments(s) == Split(s, 1, <<>>)

IsParamSegment(seg) ==
  Len(seg) >= 2 /\ seg[1] = ":" /\ \A k \in 2 .. Len(seg) : seg[k] \in WordChars

IsLiteralSegment(seg) == \A k \in 1 .. Len(seg) : seg[k] \notin {":", "*"}

\* a pattern made of literal segments and ':name' segments
SegmentPattern(pattern) ==
  \A k \in 1 .. Len(Segments(pattern)) :
    IsParamSegment(Segments(pattern)[k]) \/ IsLiteralSegment(Segments(pattern)[k])

\* a value a ':name' position takes: non-empty, slash-free, of the characters
\* the parameter group admits (route.ts:77)
IsValue(seg) == seg # <<>> /\ \A k \in 1 .. Len(seg) : seg[k] \in ParamChars

\* the path has the segments of the pattern, each ':name' filled by a value
SameSegments(pattern, path) ==
  /\ Len(Segments(pattern)) = Len(Segments(path))
  /\ \A k \in 1 .. Len(Segments(pattern)) :
       IF IsParamSegment(Segments(pattern)[k])
       THEN IsValue(Segments(path)[k])
       ELSE Segments(path)[k] = Segments(pattern)[k]

\* C19: for a pattern of literal segments and ':name' segments, match(path,
\* paramsOut) is true exactly when the path has the same segments with every
\* ':name' position filled by a non-empty slash-free value, and then
\* paramsOut[name] is the value at that position; otherwise it is false.
C19_SegmentMatch ==
  (found.router = "match" /\ SegmentPattern(heap[1].path)) =>
    /\ (found.route = 1) <=> SameSegments(heap[1].path, found.path)
    /\ found.route = 1 =>
         \A k \in 1 .. Len(Segments(heap[1].path)) :
           IsParamSegment(Segments(heap[1].path)[k]) =>
             /\ Tail(Segments(heap[1].path)[k]) \in DOMAIN found.params
             /\ found.params[Tail(Segments(heap[1].path)[k])] = Segments(found.path)[k]

\* a pattern that ends in '*' behind a literal prefix
StarPattern(pattern) ==
  /\ pattern # <<>>
  /\ pattern[Len(pattern)] = "*"
  /\ IsLiteralSegment(DropLast(pattern))

\* C20: a pattern ending in '*' matches every path that starts with the
\* literal prefix, and captures the whole remainder, slashes included, as a
\* single parameter.
C20_StarCapturesRest ==
  (/\ found.router = "match"
   /\ StarPattern(heap[1].path)
   /\ Len(found.path) >= Len(heap[1].path) - 1
   /\ SubSeq(found.path, 1, Len(heap[1].path) - 1) = DropLast(heap[1].path)) =>
    /\ found.route = 1
    /\ Cardinality(DOMAIN found.params) = 1
    /\ \A key \in DOMAIN found.params :
         found.params[key] = From(found.path, Len(heap[1].path))

(***************************************************************************)
(* One route and its composed handler: middleware(...fns), setHandler and  *)
(* getComposedHandler on a route the caller constructed.                   *)
(***************************************************************************)
MemoHandlers == {1, 7}

\* the argument lists of middleware(...fns)
MemoArgs == {<<"l">>, <<"m">>, <<"l", "m">>}

InitMemo ==
  /\ heap \in {<<NewRoute(<<"GET">>, <<"/", "a">>, h)>> : h \in MemoHandlers}
  /\ routers = [r \in RouterIds |-> EmptyRouter]
  /\ found = NoFind
  /\ thrown = ""
  /\ ComposeIdle
  /\ ServiceIdle

\* route.ts:159-166: middleware(...fns)
RouteMiddlewareAll(id, fns) ==
  /\ id \in DOMAIN heap
  /\ Len(heap[id].middlewares) + Len(fns) <= MaxMiddlewares
  /\ heap' = [heap EXCEPT ![id] = middlewareAppend(@, fns)]
  /\ thrown' = ""
  /\ found' = NoFind
  /\ UNCHANGED <<routers, composeVars, serviceVars>>

\* route.ts:47-49
SetHandler(id, handler) ==
  /\ id \in DOMAIN heap
  /\ heap[id].handler # handler
  /\ heap' = [heap EXCEPT ![id] = setHandler(@, handler)]
  /\ thrown' = ""
  /\ found' = NoFind
  /\ UNCHANGED <<routers, composeVars, serviceVars>>

\* route.ts:168-177: found.params holds the stage list of the dispatcher
\* the call returns
GetComposedHandler(id) ==
  /\ id \in DOMAIN heap
  /\ heap' = [heap EXCEPT ![id] = getComposedHandler(@)]
  /\ found' = [router |-> "getComposedHandler", method |-> "", path |-> <<>>,
               route |-> id, params |-> getComposedHandler(heap[id]).composedHandler[1],
               static |-> FALSE]
  /\ thrown' = ""
  /\ UNCHANGED <<routers, composeVars, serviceVars>>

NextMemo ==
  \/ \E id \in 1 .. MaxRoutes, fns \in MemoArgs : RouteMiddlewareAll(id, fns)
  \/ \E id \in 1 .. MaxRoutes, h \in MemoHandlers : SetHandler(id, h)
  \/ \E id \in 1 .. MaxRoutes : GetComposedHandler(id)

SpecMemo == InitMemo /\ [][NextMemo]_vars

(***************************************************************************)
(* Properties of the composed handler.                                     *)
(***************************************************************************)
Built(id) == heap[id].composedHandler # <<>>

\* C21: getComposedHandler() is memoized: every call on a route returns the
\* dispatcher built at the first call, and middleware attached or a handler
\* set after the first call does not change what that dispatcher executes.
C21_Memoized ==
  [][\A id \in DOMAIN heap :
       /\ (Built(id) /\ GetComposedHandler(id)) =>
            /\ heap'[id].composedHandler = heap[id].composedHandler
            /\ found'.params = heap[id].composedHandler[1]
       /\ (Built(id) /\ ((\E fns \in MemoArgs : RouteMiddlewareAll(id, fns))
                          \/ (\E h \in MemoHandlers : SetHandler(id, h)))) =>
            heap'[id].composedHandler = heap[id].composedHandler]_vars

\* a call after the route received middleware returned the dispatcher of the
\* first call, whose stage list is not what the route holds now
C21_Witness ==
  /\ found.router = "getComposedHandler"
  /\ found.params # ComposedStages(heap[found.route])
  /\ Len(heap[found.route].middlewares) > 0

\* C30: middleware(...fns) only appends, so the list is the concatenation of
\* all arguments in call order, and the dispatcher built by the first
\* getComposedHandler() runs exactly that list followed by the handler chain
\* (the handler, or its elements when it is an array).
C30_AppendsInOrder ==
  [][\A id \in DOMAIN heap :
       /\ \A fns \in MemoArgs :
            RouteMiddlewareAll(id, fns) =>
              heap'[id].middlewares = heap[id].middlewares \o fns
       /\ (~Built(id) /\ GetComposedHandler(id)) =>
            found'.params =
              heap[id].middlewares
                \o (IF heap[id].handler = 7 THEN <<8, 9>> ELSE <<heap[id].handler>>)]_vars

\* the first dispatcher of a route with an array handler and two middleware
\* attached by separate calls
C30_Witness ==
  /\ found.router = "getComposedHandler"
  /\ heap[found.route].handler = 7
  /\ heap[found.route].middlewares = <<"m", "l">>
  /\ found.params = <<"m", "l", 8, 9>>

(***************************************************************************)
(* Routes and their clones: clone(), middleware(fn), as(name) and          *)
(* setPath(path) on routes the caller holds.                               *)
(***************************************************************************)
CloneNames == {<<"x">>}

ClonePaths == {<<"/", "b">>}

InitClone ==
  /\ heap = <<NewRoute(<<"GET", "POST">>, <<"/", "a">>, 1)>>
  /\ routers = [r \in RouterIds |-> EmptyRouter]
  /\ found = NoFind
  /\ thrown = ""
  /\ ComposeIdle
  /\ ServiceIdle

\* route.ts:126-136: the clone is a new object
Clone(id) ==
  /\ id \in DOMAIN heap
  /\ Len(heap) < MaxRoutes
  /\ heap' = Append(heap, clone(heap[id]))
  /\ thrown' = ""
  /\ found' = NoFind
  /\ UNCHANGED <<routers, composeVars, serviceVars>>

\* route.ts:55-57
RouteAs(id, name) ==
  /\ id \in DOMAIN heap
  /\ heap[id].name # name
  /\ heap' = [heap EXCEPT ![id] = as(@, name)]
  /\ thrown' = ""
  /\ found' = NoFind
  /\ UNCHANGED <<routers, composeVars, serviceVars>>

\* route.ts:26-37
RouteSetPath(id, path) ==
  /\ id \in DOMAIN heap
  /\ heap[id].path # path
  /\ heap' = [heap EXCEPT ![id] = setPath(@, path)]
  /\ thrown' = ""
  /\ found' = NoFind
  /\ UNCHANGED <<routers, composeVars, serviceVars>>

NextClone ==
  \/ \E id \in 1 .. MaxRoutes : Clone(id)
  \/ \E id \in 1 .. MaxRoutes, fn \in LocalFns : RouteMiddleware(id, fn)
  \/ \E id \in 1 .. MaxRoutes, name \in CloneNames : RouteAs(id, name)
  \/ \E id \in 1 .. MaxRoutes, path \in ClonePaths : RouteSetPath(id, path)

SpecClone == InitClone /\ [][NextClone]_vars

(***************************************************************************)
(* Properties of clone.                                                    *)
(***************************************************************************)
\* the step changes the route id by middleware(), as() or setPath()
Mutates(id) ==
  \/ \E fn \in LocalFns : RouteMiddleware(id, fn)
  \/ \E name \in CloneNames : RouteAs(id, name)
  \/ \E path \in ClonePaths : RouteSetPath(id, path)

\* C22: clone() yields an independent route: at clone time it has the path,
\* methods, handler, name and middleware sequence of the original, and
\* afterwards attaching middleware, renaming or re-pathing the clone or the
\* original never changes the other.
C22_CloneIndependent ==
  [][\A id \in DOMAIN heap :
       /\ Clone(id) =>
            /\ heap'[Len(heap')].path = heap[id].path
            /\ heap'[Len(heap')].methods = heap[id].methods
            /\ heap'[Len(heap')].handler = heap[id].handler
            /\ heap'[Len(heap')].name = heap[id].name
            /\ heap'[Len(heap')].middlewares = heap[id].middlewares
            /\ \A other \in DOMAIN heap : heap'[other] = heap[other]
       /\ Mutates(id) =>
            \A other \in DOMAIN heap \ {id} : heap'[other] = heap[other]]_vars

\* a clone taken of a renamed route with middleware, after which the
\* original was re-pathed and the clone received more middleware
C22_Witness ==
  /\ Len(heap) >= 2
  /\ heap[1].path = <<"/", "b">>
  /\ heap[2].path = <<"/", "a">>
  /\ heap[2].name = <<"x">>
  /\ Len(heap[2].middlewares) > Len(heap[1].middlewares)
  /\ Len(heap[1].middlewares) > 0

(***************************************************************************)
(* Properties of registration.                                             *)
(***************************************************************************)
\* a path that does not start with '/', or a non-root path that ends with '/'
Malformed(path) ==
  \/ path = <<>>
  \/ path[1] # "/"
  \/ (path # <<"/">> /\ EndsWith(path, "/"))

\* C23: add(method, path, handler) raises a registration error when the path
\* does not start with '/' or a non-root path ends with '/', and then the
\* router's route list and static index are unchanged.
C23_AddRejects ==
  [][\A r \in NestIds : \A in \in NestInputs(r) :
       (Add(r, in[1], in[2]) /\ Malformed(in[2])) =>
         /\ thrown' # ""
         /\ routers' = routers
         /\ heap' = heap]_vars

\* add refused a path with a trailing slash on a router that holds routes
C23_Witness ==
  /\ thrown = "must not end with slash(/)"
  /\ routers["root"].routes # <<>>

\* C24: a linked view holds no routes of its own: every add through the view
\* appends exactly one route to the parent router, whose path is
\* parentPrefix + sub + path (without a trailing slash) and whose middleware
\* list is the parent's router-level middleware followed by the view's, and
\* parent.find returns that route at that path.
C24_ViewForwards ==
  [][\A v \in Views : \A in \in LinkedInputs :
       LinkedAdd(v, in[1], in[2]) =>
         LET r == ViewRouter(v)
             id == Len(heap) + 1
             full == Normalize(RouterPrefix(r) \o ViewPrefix(v) \o in[2])
         IN /\ Len(heap') = id
            /\ routers'[r].routes = Append(routers[r].routes, id)
            /\ heap'[id].path = full
            /\ heap'[id].middlewares = routers[r].middlewares \o ViewMiddlewares(v)
            /\ (find(r, in[1], full, <<>>).route)' = id]_vars

\* the stage list the composed handler of a route dispatches
Dispatched(route) == getComposedHandler(route).composedHandler[1]

\* C25: merging preserves each route's middleware chain: after
\* parent.use(child), with or without a parent prefix, the composed handler
\* of the merged route dispatches what the child's own route dispatches, which
\* for a route registered on the child is the child's router-level middleware
\* in their order and then the handler.
C25_MergeKeepsChain ==
  [][\A pair \in NestPairs :
       UseRouter(pair[1], pair[2]) =>
         \A k \in 1 .. Len(RoutesIn(pair[2])) :
           /\ Dispatched(heap'[Len(heap) + k]) = Dispatched(heap[RoutesIn(pair[2])[k]])
           /\ pair[2] = "auth" =>
                Dispatched(heap'[Len(heap) + k])
                  = NestMiddlewares("auth") \o <<heap[RoutesIn(pair[2])[k]].handler>>]_vars

\* root holds a route of auth that api merged under '/p' and root merged
\* from api, with the two middleware of auth
C25_Witness ==
  \E id \in HeldBy("root") :
    /\ heap[id].path = <<"/", "p", "/", "q", "/", "a">>
    /\ heap[id].middlewares = <<"f", "g">>

(***************************************************************************)
(* Dependency container: container/index.ts                                *)
(*                                                                         *)
(* A registration carries a value function (value: () => ...) or a factory *)
(* with no dependencies.  The function is user code: `returns` gives what  *)
(* it returns on its first call and what it returns on every later call.   *)
(* 0 stands for a falsy result (0, '', false, null, undefined), 1 for a    *)
(* truthy one.                                                             *)
(***************************************************************************)
MaxInvocations == 3

ContainerIds == {"a", "b"}

Produced == {0, 1}

\* container/index.ts:101,132,168: the truthiness tests of `if (value)`
Truthy(v) == v # 0

ContainerScope == {"SINGLETON", "TRANSIENT"}

RegistrationKinds == {"value", "factory"}

Registrations ==
  [scope : ContainerScope, kind : RegistrationKinds, returns : [1 .. 2 -> Produced]]

NoResolve == [id |-> "none", value |-> 0]

InitContainer ==
  /\ registry = <<>>
  /\ resolvedRegistry = <<>>
  /\ invoked = [id \in ContainerIds |-> 0]
  /\ resolved = NoResolve
  /\ ComposeIdle
  /\ RouterIdle
  /\ SessionIdle
  /\ LockIdle

\* container/index.ts:56-80: set(data) is register(data, false)
Set(id, registration) ==
  /\ id \notin DOMAIN registry
  /\ registry' = (id :> registration) @@ registry
  /\ UNCHANGED <<resolvedRegistry, invoked, resolved>>
  /\ UNCHANGED <<composeVars, routerVars, sessionVars, lockVars>>

\* container/index.ts:99-113: the n-th run of the value function or factory
valueResolver(reg, n) == reg.returns[IF n = 1 THEN 1 ELSE 2]

\* container/index.ts:167: this.resolvedRegistry.get(id) || {}
CachedEntry(id) ==
  IF id \in DOMAIN resolvedRegistry THEN resolvedRegistry[id] ELSE <<>>

\* container/index.ts:168: if (resolved.singleton)
HasSingleton(entry) == entry # <<>> /\ Truthy(entry[1])

\* container/index.ts:154-187
Resolve(id) ==
  /\ id \in DOMAIN registry
  /\ invoked[id] < MaxInvocations
  /\ LET reg == registry[id]
         entry == CachedEntry(id)
         made == valueResolver(reg, invoked[id] + 1)
     IN IF reg.scope = "SINGLETON" /\ HasSingleton(entry)
        THEN /\ resolved' = [id |-> id, value |-> entry[1]]
             /\ UNCHANGED <<resolvedRegistry, invoked>>
        ELSE /\ invoked' = [invoked EXCEPT ![id] = @ + 1]
             /\ resolved' = [id |-> id, value |-> made]
             /\ resolvedRegistry' =
                  IF reg.scope = "SINGLETON"
                  THEN (id :> <<made>>) @@ [k \in DOMAIN resolvedRegistry \ {id} |-> resolvedRegistry[k]]
                  ELSE resolvedRegistry
  /\ UNCHANGED registry
  /\ UNCHANGED <<composeVars, routerVars, sessionVars, lockVars>>

NextContainer ==
  \/ \E id \in ContainerIds, registration \in Registrations : Set(id, registration)
  \/ \E id \in ContainerIds : Resolve(id)

SpecContainer == InitContainer /\ [][NextContainer]_vars

(***************************************************************************)
(* Properties of the container.                                            *)
(***************************************************************************)
\* C28: the value function or factory of a Singleton registration runs at most
\* once, and a resolve of it returns what the first run produced.
C28_SingletonOnce ==
  \A id \in DOMAIN registry :
    registry[id].scope = "SINGLETON" =>
      /\ invoked[id] <= 1
      /\ resolved.id = id => resolved.value = valueResolver(registry[id], 1)

(***************************************************************************)
(* Session: session/index.ts                                               *)
(*                                                                         *)
(* Two revisions of the Session class are part of the sources: the one of  *)
(* session/index.ts, which records the flashed keys as data.$flashedKeys,  *)
(* and the one that records them as data.$.flashed and deletes them on the *)
(* following close().  Session.data is modelled as its entries (key ->     *)
(* stored entry) and the recorded list of flashed keys.                    *)
(***************************************************************************)
Revisions == {"index.ts", "part_000"}

SessionIds == {"s"}

SessionKeys == {"message", "n"}

\* a primitive and an object
SessionValues == {<<"string", "hello">>, <<"object", "o">>}

\* Object(value) !== value
Primitive(value) == value[1] = "string"

\* JSON.stringify and JSON.parse: text is kept apart from the value it encodes
Stringify(value) == <<"json", value>>
Parse(text) == text[2]

EmptyFile == <<>>

\* session/index.ts:11 `{}`, and `{ $: {} }` in the other revision
EmptyData == [entries |-> <<>>, flashed |-> {}]

\* session/index.ts:76-82 and 95-100: what set() and flash() store
Entry(value) ==
  [value |-> IF Primitive(value) THEN value ELSE Stringify(value),
   primitive |-> Primitive(value)]

\* session/index.ts:63-74
get(d, key) ==
  IF key \notin DOMAIN d.entries THEN Undefined
  ELSE IF d.entries[key].primitive THEN d.entries[key].value
  ELSE Parse(d.entries[key].value)

\* session/index.ts:28: JSON.parse(await this.driver.read() || '{}')
Load(content) == IF content = EmptyFile THEN EmptyData ELSE Parse(content)

Put(entries, key, entry) ==
  (key :> entry) @@ [k \in DOMAIN entries \ {key} |-> entries[k]]

Without(entries, keys) == [k \in DOMAIN entries \ keys |-> entries[k]]

\* the data close() writes: session/index.ts:38-43, and lines 64-78 of the
\* revision that deletes the keys flashed by the previous request
closeIndex(d, flash) ==
  [entries |-> flash @@ Without(d.entries, DOMAIN flash), flashed |-> DOMAIN flash]
closeFlashed(d, flash) ==
  [entries |-> flash @@ Without(d.entries, d.flashed \cup DOMAIN flash),
   flashed |-> DOMAIN flash]
closeData(rev, d, flash) ==
  IF rev = "index.ts" THEN closeIndex(d, flash) ELSE closeFlashed(d, flash)

InitSession ==
  /\ revision \in Revisions
  /\ files = [id \in {} |-> EmptyFile]
  /\ data = EmptyData
  /\ flashData = <<>>
  /\ opened = FALSE
  /\ returned = [key |-> "none", value |-> Undefined]
  /\ ComposeIdle
  /\ RouterIdle
  /\ LockIdle
  /\ ContainerIdle

\* session/index.ts:25-29; the driver's open(id) creates the file when missing
SessionInit(id) ==
  /\ ~opened
  /\ LET content == IF id \in DOMAIN files THEN files[id] ELSE EmptyFile
     IN /\ files' = (id :> content) @@ files
        /\ data' = Load(content)
  /\ opened' = TRUE
  /\ UNCHANGED <<revision, flashData, returned>>
  /\ UNCHANGED <<composeVars, routerVars, lockVars, containerVars>>

\* session/index.ts:76-82
SessionSet(key, value) ==
  /\ data' = [data EXCEPT !.entries = Put(@, key, Entry(value))]
  /\ UNCHANGED <<revision, files, flashData, opened, returned>>
  /\ UNCHANGED <<composeVars, routerVars, lockVars, containerVars>>

\* session/index.ts:95-101
SessionFlash(key, value) ==
  /\ flashData' = Put(flashData, key, Entry(value))
  /\ UNCHANGED <<revision, files, data, opened, returned>>
  /\ UNCHANGED <<composeVars, routerVars, lockVars, containerVars>>

\* session/index.ts:63-74
SessionGet(key) ==
  /\ returned' = [key |-> key, value |-> get(data, key)]
  /\ UNCHANGED <<revision, files, data, flashData, opened>>
  /\ UNCHANGED <<composeVars, routerVars, lockVars, containerVars>>

\* session/index.ts:36-47: close() of the session opened with id
SessionClose(id) ==
  /\ opened
  /\ files' = [files EXCEPT ![id] = Stringify(closeData(revision, data, flashData))]
  /\ data' = EmptyData
  /\ flashData' = <<>>
  /\ opened' = FALSE
  /\ UNCHANGED <<revision, returned>>
  /\ UNCHANGED <<composeVars, routerVars, lockVars, containerVars>>

NextSession ==
  \/ \E id \in SessionIds : SessionInit(id)
  \/ \E key \in SessionKeys, value \in SessionValues : SessionSet(key, value)
  \/ \E key \in SessionKeys, value \in SessionValues : SessionFlash(key, value)
  \/ \E key \in SessionKeys : SessionGet(key)
  \/ \E id \in SessionIds : SessionClose(id)

SpecSession == InitSession /\ [][NextSession]_vars

(***************************************************************************)
(* Properties of the session.                                              *)
(***************************************************************************)
\* what get(key) returns in the session that re-opens id
Reopened(id, key) == get(Load(files[id]), key)

\* C26: flash data lives for exactly one following request.  In an opened
\* session flash(key) does not change what get(key) returns; close() stores
\* every flashed key so that the session re-opened with the same id reads the
\* flashed value; and the close() of that session leaves every key flashed by
\* the request before it, and not flashed again, unreadable for the next one.
C26_FlashLivesOneRequest ==
  [][/\ \A key \in SessionKeys, value \in SessionValues :
          (opened /\ SessionFlash(key, value)) =>
            (get(data, key))' = get(data, key)
     /\ \A id \in SessionIds :
          SessionClose(id) =>
            /\ \A key \in DOMAIN flashData :
                 (Reopened(id, key))' = get([data EXCEPT !.entries = flashData], key)
            /\ \A key \in data.flashed \ DOMAIN flashData :
                 (Reopened(id, key))' = Undefined]_vars

(***************************************************************************)
(* File session driver: session/file.ts                                    *)
(*                                                                         *)
(* Several SessionFileDriver instances open the same session id.  Every    *)
(* awaited file operation of acquireLock and releaseLock is one step, so   *)
(* the steps of different drivers interleave.  The lock file holds the     *)
(* time it was written; time is kept as "fresh" (written less than         *)
(* LOCK_STALE_MS ago) or "stale".  A reader that finds the file created    *)
(* but not yet written parses NaN and waits exactly as for a fresh one.    *)
(***************************************************************************)
\* file.ts:9 LOCK_MAX_RETRIES is 100; the loop is cut down to a few rounds
LOCK_MAX_RETRIES == 2

Drivers == {"d1", "d2"}

NoLock == <<>>

\* file.ts:16-17 and the position of the instance in open()
NewDriver == [pc |-> "idle", i |-> 0, locked |-> FALSE, stamp |-> "none"]

InitLock ==
  /\ lockFile \in {NoLock, <<"stale">>}
  /\ driver = [d \in Drivers |-> NewDriver]
  /\ ComposeIdle
  /\ RouterIdle
  /\ SessionIdle
  /\ ContainerIdle

Others == <<composeVars, routerVars, sessionVars, containerVars>>

\* file.ts:81-85: open(id) enters acquireLock; an open that threw
\* 'Failed to acquire session lock' leaves the instance as it was ("failed")
Open(d) ==
  /\ driver[d].pc \in {"idle", "failed"}
  /\ driver' = [driver EXCEPT ![d] = [@ EXCEPT !.pc = "create", !.i = 0]]
  /\ UNCHANGED <<lockFile, Others>>

\* file.ts:38-45 and 67, 85-87: the loop test, then writeFile with flag 'wx'
Create(d) ==
  /\ driver[d].pc = "create"
  /\ IF driver[d].i >= LOCK_MAX_RETRIES
     THEN /\ driver' = [driver EXCEPT ![d] = [@ EXCEPT !.pc = "failed"]]
          /\ UNCHANGED lockFile
     ELSE IF lockFile = NoLock
     THEN /\ lockFile' = <<"fresh">>
          /\ driver' = [driver EXCEPT ![d] =
                          [@ EXCEPT !.pc = "stat", !.locked = TRUE, !.stamp = "fresh"]]
     ELSE /\ driver' = [driver EXCEPT ![d] = [@ EXCEPT !.pc = "read"]]
          /\ UNCHANGED lockFile
  /\ UNCHANGED Others

\* file.ts:47-59: readFile of the lock file and the staleness test
Read(d) ==
  /\ driver[d].pc = "read"
  /\ driver' = [driver EXCEPT ![d] =
                  [@ EXCEPT !.pc = IF lockFile = NoLock \/ lockFile = <<"stale">>
                                   THEN "unlink" ELSE "wait"]]
  /\ UNCHANGED <<lockFile, Others>>

\* file.ts:52-53 and 57-58: unlink, errors ignored, then continue
Unlink(d) ==
  /\ driver[d].pc = "unlink"
  /\ lockFile' = NoLock
  /\ driver' = [driver EXCEPT ![d] = [@ EXCEPT !.pc = "create", !.i = @ + 1]]
  /\ UNCHANGED Others

WaitMut(d) ==
  /\ driver[d].pc = "wait"
  /\ driver' = [driver EXCEPT ![d] = [@ EXCEPT !.pc = "create"]]
  /\ UNCHANGED <<lockFile, Others>>

\* file.ts:61: the retry delay
Wait(d) ==
  /\ driver[d].pc = "wait"
  /\ driver' = [driver EXCEPT ![d] = [@ EXCEPT !.pc = "create", !.i = @ + 1]]
  /\ UNCHANGED <<lockFile, Others>>

\* file.ts:89-102: the session file is created when missing and open returns
Opened(d) ==
  /\ driver[d].pc = "stat"
  /\ driver' = [driver EXCEPT ![d] = [@ EXCEPT !.pc = "open"]]
  /\ UNCHANGED <<lockFile, Others>>

\* file.ts:70-79 and 115-127: close() and destroy() release the lock
releaseLock(d) ==
  IF driver[d].locked THEN NoLock ELSE lockFile
Release(d) ==
  /\ driver[d].pc = "open"
  /\ lockFile' = releaseLock(d)
  /\ driver' = [driver EXCEPT ![d] = NewDriver]
  /\ UNCHANGED Others

\* file.ts:7, 50: more than LOCK_STALE_MS pass
Expire ==
  /\ lockFile = <<"fresh">> \/ \E d \in Drivers : driver[d].stamp = "fresh"
  /\ lockFile' = IF lockFile = NoLock THEN NoLock ELSE <<"stale">>
  /\ driver' = [d \in Drivers |->
                  [driver[d] EXCEPT !.stamp = IF @ = "none" THEN "none" ELSE "stale"]]
  /\ UNCHANGED Others

NextLock ==
  \/ \E d \in Drivers : Open(d)
  \/ \E d \in Drivers : Create(d)
  \/ \E d \in Drivers : Read(d)
  \/ \E d \in Drivers : Unlink(d)
  \/ \E d \in Drivers : Wait(d)
  \/ \E d \in Drivers : Opened(d)
  \/ \E d \in Drivers : Release(d)
  \/ Expire

SpecLock == InitLock /\ [][NextLock]_vars

\* file.ts:38-66: a step of the loop of acquireLock
Acquire(d) == Create(d) \/ Read(d) \/ Unlink(d) \/ Wait(d)

\* every awaited file operation and the retry timer of acquireLock complete:
\* a driver inside the loop takes its next step
SpecLockLive ==
  InitLock /\ [][NextLock]_vars /\ \A d \in Drivers : WF_vars(Acquire(d))

(***************************************************************************)
(* Properties of the file session driver.                                  *)
(***************************************************************************)
\* d is between its successful open(id) and its close(), and the lock it
\* wrote is not stale
HoldsFresh(d) == driver[d].pc = "open" /\ driver[d].stamp = "fresh"

\* C27: while a driver holds the non-stale lock of a session, no other
\* driver's open of that session completes.
C27_ExclusiveOpen ==
  [][\A d \in Drivers, e \in Drivers : (d # e /\ HoldsFresh(d)) => ~Opened(e)]_vars

(***************************************************************************)
(* One route whose path is changed: new HttpRoute(methods, pattern,        *)
(* handler), then setPath(pattern) and match(path) on it.                  *)
(***************************************************************************)
PathPatterns ==
  {<<"/", "a">>, <<"/", "b">>, <<"/", "u", "/", ":", "i">>, <<"/", "*", "/", ":", "i">>,
   <<"/", ":", "i", "/", "*">>, <<"/", ":", "i", "/", ":", "j">>}

PathRequests ==
  {<<"/", "a">>, <<"/", "b">>, <<"/", "u", "/", "1">>, <<"/", "a", "/", "1">>,
   <<"/", "a", "/", "b", "/", "1">>, <<"/", "1", "/", "a", "/", "b">>,
   <<"/", "1", "/", "2">>, <<"/", "u">>, <<"/", "n", "u", "l", "l">>,
   <<"/", "*", "/", ":", "i">>, <<"/", "u", "/", "~">>, <<"/">>,
   <<"/", "b", "/", "a">>, <<"/", "1", ".", "2", "/", "a">>}

InitPath ==
  /\ heap \in {<<NewRoute(<<"GET">>, pattern, 1)>> : pattern \in PathPatterns}
  /\ routers = [r \in RouterIds |-> EmptyRouter]
  /\ found = NoFind
  /\ thrown = ""
  /\ ComposeIdle
  /\ ServiceIdle

NextPath ==
  \/ \E pattern \in PathPatterns : RouteSetPath(1, pattern)
  \/ \E path \in PathRequests : Match(path)

SpecPath == InitPath /\ [][NextPath]_vars

(***************************************************************************)
(* Properties of patterns.                                                 *)
(***************************************************************************)
\* the capture groups of the route's expression after the outer one, in order
Groups(route) == SelectSeq(route.regex.toks, LAMBDA t : t.t # "lit")

\* how many of the first k groups are ':name' groups
ParamOrdinal(groups, k) == Cardinality({j \in 1 .. k : groups[j].t = "param"})

RECURSIVE TokenNames(_, _)
\* the names of the ':name' tokens of a pattern, in order
TokenNames(s, k) ==
  IF k > Len(s) THEN <<>>
  ELSE IF s[k] = ":" /\ k < Len(s) /\ s[k + 1] \in WordChars
       THEN <<SubSeq(s, k + 1, k + WordRun(s, k + 1))>> \o TokenNames(s, k + 1)
       ELSE TokenNames(s, k + 1)

\* C31: when the route's expression matched the path, every ':name' token's
\* name is in paramsOut with the text its own group captured, whether or not
\* the pattern also has '*' groups.
C31_OwnCapture ==
  (/\ found.router = "match"
   /\ found.route = 1
   /\ ~heap[1].regex.isNull
   /\ Exec(heap[1].regex.toks, found.path).ok) =>
    LET groups == Groups(heap[1])
        caps == Exec(heap[1].regex.toks, found.path).caps
        names == TokenNames(heap[1].path, 1)
    IN \A k \in 1 .. Len(groups) :
         groups[k].t = "param" =>
           /\ names[ParamOrdinal(groups, k)] \in DOMAIN found.params
           /\ found.params[names[ParamOrdinal(groups, k)]] = caps[k]

\* the path holds a ':name' token or a '*'
HasToken(path) ==
  \/ \E k \in 1 .. Len(path) : path[k] = "*"
  \/ \E k \in 1 .. (Len(path) - 1) : path[k] = ":" /\ path[k + 1] \in WordChars

\* C33: at every point of a route's life isStatic() is true exactly when its
\* current path holds no ':name' token and no '*'.
C33_StaticIffNoToken ==
  \A id \in DOMAIN heap : heap[id].static <=> ~HasToken(heap[id].path)

\* C37: match(path) on a route whose pattern has no ':name' and no '*' is
\* true exactly when the path equals the route's path.
C37_StaticMatchesOwnPath ==
  (found.router = "match" /\ ~HasToken(heap[1].path)) =>
    ((found.route = 1) <=> (found.path = heap[1].path))

(***************************************************************************)
(* Properties of the static index.                                         *)
(***************************************************************************)
\* router r holds a static route registered for exactly this method and path
Registered(r, method, path) ==
  \E k \in 1 .. Len(RoutesIn(r)) :
    /\ heap[RoutesIn(r)[k]].static
    /\ heap[RoutesIn(r)[k]].methods = <<method>>
    /\ heap[RoutesIn(r)[k]].path = NewRoute(<<method>>, makePath(r, path), 0).path

\* C32: registering a static method and path a second time appends the new
\* route to the route list, which keeps the earlier one, and find(method,
\* path) then returns the new route.
C32_LastRegistrationWins ==
  [][\A r \in RouterIds : \A in \in AddInputs(r) :
       (/\ Add(r, in[1], in[2])
        /\ AddError(in[2]) = ""
        /\ Registered(r, in[1], in[2])) =>
         (/\ RoutesIn(r)' = Append(RoutesIn(r), Len(heap) + 1)
          /\ (find(r, in[1], makePath(r, in[2]), <<>>))'.route = Len(heap) + 1)]_vars

(***************************************************************************)
(* Properties of the cursor of a dispatch.                                 *)
(***************************************************************************)
\* the stages (the terminal included) whose function a dispatch has invoked
Invoked(d) == {i \in StageIds : calls[d][i] > 0}

\* C34: in a dispatch every stage function and the terminal is invoked at most
\* once, the invoked stages are the stages 0..cursor without a gap, and once the
\* dispatch has begun no step decreases its cursor.
C34_CursorMonotone ==
  /\ [](\A d \in Dispatches :
          /\ \A i \in StageIds : calls[d][i] <= 1
          /\ \A i \in Invoked(d) : \A j \in 0 .. i : j \in Invoked(d)
          /\ \A i \in Invoked(d) : i <= index[CursorOf(d)])
  /\ [][\A d \in Dispatches :
          outcome[d].st # "idle" => index'[CursorOf(d)] >= index[CursorOf(d)]]_vars

\* a stage called its continuation twice, the second call was rejected, and
\* the terminal still ran once
C34_Witness ==
  /\ middleware = <<"twice", "forget">>
  /\ next = "hOk"
  /\ multi[1] = 1
  /\ calls[1] = [i \in StageIds |-> IF i <= 2 THEN 1 ELSE 0]
  /\ index[CursorOf(1)] = 2

(***************************************************************************)
(* Properties of the routers' bookkeeping.                                 *)
(***************************************************************************)
\* the keys under which the static index lists a route
KeysOf(route) == {StaticKey(route.methods[k], route.path) : k \in 1 .. Len(route.methods)}

\* C35: in every router each static index entry refers to a route of the
\* route list that is static and whose path and one of whose methods make the
\* entry's key, and every static route of the list has an entry for each of
\* its methods.
C35_IndexAgreesWithList ==
  \A r \in DOMAIN routers :
    /\ \A key \in DOMAIN routers[r].staticRoutes :
         /\ \E k \in 1 .. Len(RoutesIn(r)) : RoutesIn(r)[k] = routers[r].staticRoutes[key]
         /\ heap[routers[r].staticRoutes[key]].static
         /\ key \in KeysOf(heap[routers[r].staticRoutes[key]])
    /\ \A k \in 1 .. Len(RoutesIn(r)) :
         heap[RoutesIn(r)[k]].static =>
           \A key \in KeysOf(heap[RoutesIn(r)[k]]) : key \in DOMAIN routers[r].staticRoutes

\* root holds a route added through its linked view and a route merged from
\* api, each with its own index entry
C35_Witness ==
  /\ Len(RoutesIn("root")) = 2
  /\ Cardinality(DOMAIN routers["root"].staticRoutes) = 2
  /\ StaticKey("POST", <<"/", "v", "/", "a">>) \in DOMAIN routers["root"].staticRoutes
  /\ StaticKey("GET", <<"/", "p">>) \in DOMAIN routers["root"].staticRoutes

(***************************************************************************)
(* One router whose routes differ in method and in parameter names:        *)
(* add(method, pattern, handler) and find(method, path, params).           *)
(***************************************************************************)
ParamInputs ==
  {<<"POST", <<"/", ":", "i">>>>, <<"GET", <<"/", ":", "j">>>>,
   <<"GET", <<"/", "a">>>>, <<"POST", <<"/", "a", "/", ":", "n">>>>}

ParamMethods == {"GET", "POST"}

ParamPaths == {<<"/">>, <<"/", "1">>, <<"/", "a">>, <<"/", "a", "/", "1">>}

NextParams ==
  \/ \E in \in ParamInputs : Add("root", in[1], in[2])
  \/ \E method \in ParamMethods, path \in ParamPaths : Find("root", method, path)

SpecParams == InitRouter /\ [][NextParams]_vars

(***************************************************************************)
(* Properties of the parameters find reports.                              *)
(***************************************************************************)
\* C36: after find, the params object (empty before the call) holds what the
\* match of the returned route wrote when a route was found by the scan, and
\* is still empty when find returned no-match or a static-index hit.
C36_OnlyOwnParams ==
  Searched =>
    IF found.route # 0 /\ ~found.static
    THEN found.params = match(heap[found.route], Normalize(found.path), <<>>).params
    ELSE found.params = <<>>

(***************************************************************************)
(* Properties of prefixes and of the order of merged routes.               *)
(***************************************************************************)
StartsWith(s, p) == Len(s) >= Len(p) /\ SubSeq(s, 1, Len(p)) = p

\* C38: every route a router holds has a path that begins with the prefix the
\* router was constructed with.
C38_OwnPrefixOutermost ==
  \A r \in DOMAIN routers :
    \A k \in 1 .. Len(RoutesIn(r)) :
      StartsWith(heap[RoutesIn(r)[k]].path, RouterPrefix(r))

(***************************************************************************)
(* use(prefix, r1, r2): a parent merges two routers under a prefix.        *)
(***************************************************************************)
\* <<parent, r1, r2>>: root.use('/q', api, site), api.use('/q', site, root)
OrderUses == {<<"root", "api", "site">>, <<"api", "site", "root">>}

\* the registrations made on the routers that are merged: <<method, path>>
OrderInputs == {<<"GET", <<"/", "a">>>>, <<"GET", <<"/", ":", "i">>>>}

OrderPaths == {<<"/", "q", "/", "a">>, <<"/", "q", "/", "p", "/", "a">>}

\* router.ts:212-230: use(prefix, r1, r2), no merge flag; a merge adds one
\* clone per route of the two routers
UseOrder(r, prefix, r1, r2) ==
  /\ Len(heap) + Len(RoutesOf(<<r1, r2>>, 1)) <= 2 * MaxRoutes
  /\ LET m == mergeRouters(r, UseRouters("none", <<r1, r2>>), prefix, UseMerge("none"))
     IN /\ heap' = m.heap
        /\ routers' = [routers EXCEPT ![r] = m.router]
  /\ thrown' = ""
  /\ found' = NoFind
  /\ UNCHANGED <<composeVars, serviceVars>>

NextOrder ==
  \/ \E r \in {"api", "site"} : \E in \in OrderInputs : Add(r, in[1], in[2])
  \/ \E u \in OrderUses, prefix \in UsePrefixes : UseOrder(u[1], prefix, u[2], u[3])
  \/ \E path \in OrderPaths : Find("root", "GET", path)

SpecOrder == InitNest /\ [][NextOrder]_vars

\* the handlers of the routes at positions from + 1 .. from + Len(ids) of the
\* list of router r in the next state are those of the routes ids, in order
ClonesAt(r, from, ids) ==
  \A k \in 1 .. Len(ids) :
    /\ from + k <= Len(routers'[r].routes)
    /\ heap'[routers'[r].routes[from + k]].handler = heap[ids[k]].handler

\* C39: use(prefix, r1, r2) appends the routes of r1, then the routes of r2,
\* to the route list of the parent.
C39_ArgumentOrder ==
  [][\A u \in OrderUses, prefix \in UsePrefixes :
       UseOrder(u[1], prefix, u[2], u[3]) =>
         /\ ClonesAt(u[1], Len(RoutesIn(u[1])), RoutesIn(u[2]))
         /\ ClonesAt(u[1], Len(RoutesIn(u[1])) + Len(RoutesIn(u[2])), RoutesIn(u[3]))]_vars

(***************************************************************************)
(* Termination of acquireLock.                                             *)
(***************************************************************************)
\* d is inside the loop of acquireLock
Acquiring(d) == driver[d].pc \in {"create", "read", "unlink", "wait"}

\* open(id) of d is over: it holds the lock it wrote, or it threw
OpenOver(d) ==
  \/ driver[d].pc = "stat" /\ driver[d].locked
  \/ driver[d].pc = "failed" /\ ~driver[d].locked

\* C40: an open(id) that entered acquireLock comes out of it, holding the lock
\* or failed, whatever the other drivers do with the lock file, and it never
\* makes more than LOCK_MAX_RETRIES attempts: it fails only after that many.
C40_AcquireTerminates ==
  /\ \A d \in Drivers : Acquiring(d) ~> OpenOver(d)
  /\ [](\A d \in Drivers :
          /\ driver[d].i <= LOCK_MAX_RETRIES
          /\ driver[d].pc \in {"read", "unlink", "wait"} => driver[d].i < LOCK_MAX_RETRIES
          /\ driver[d].pc = "failed" => driver[d].i = LOCK_MAX_RETRIES)

\* d1 gave up after LOCK_MAX_RETRIES attempts while d2 was holding the lock
C40_Witness ==
  /\ driver["d1"].pc = "failed"
  /\ driver["d1"].i = LOCK_MAX_RETRIES
  /\ driver["d2"].pc = "open"
  /\ lockFile # NoLock

====
